---- MODULE Spec2Model ----
(***************************************************************************)
(* Model of the resumable scraping engine of facebook-scraper:             *)
(*   - the checkpoint store and result sink of ads_and_suggestions_scraper *)
(*     (load_checkpoint, save_checkpoint, save_data_immediately, main),    *)
(*   - the orchestrator of facebook_advertiser_ads                         *)
(*     (run_advertiser_scraping_logic, scrape_pair),                       *)
(*   - the month-aware extraction loop (extract_ads and its probes),       *)
(*   - the URL-engineering layer (_apply_filters_to_url),                  *)
(*   - the API of app.py (rate_limit_check, the background jobs),          *)
(*   - the pages scraper (facebook_pages_scraper) and the posts scraper    *)
(*     (posts_scraper).                                                    *)
(* The specifications share the variables: SpecLoad applies the two        *)
(* load_checkpoint functions to bounded file contents, SpecMain runs main  *)
(* of ads_and_suggestions_scraper with kills, write failures and restarts, *)
(* SpecAdv runs the advertiser orchestrator, SpecExtract runs extract_ads  *)
(* against a page that renders cards while it is probed, SpecCount applies *)
(* _count_cards_in_prefix to one strip, SpecFilter applies the filters to  *)
(* a base URL and to the result, SpecTask runs main Task by Task under a   *)
(* MODE and filter settings, SpecWriters runs two scraper processes over   *)
(* the same files, SpecRate calls rate_limit_check as time passes, and     *)
(* SpecJobs runs the POST handlers and the background jobs next to GET     *)
(* /jobs.  SpecDiscover applies _discover_month_prefixes to a DOM,         *)
(* SpecPages runs main of facebook_pages_scraper with its crash recovery,  *)
(* SpecPosts runs main of posts_scraper over the numbered result files,    *)
(* SpecBudget runs the ads budget of scrape_pair; SpecPagesFair and        *)
(* SpecExtractFair add that the program's own statements keep running.     *)
(***************************************************************************)
EXTENDS Integers, Sequences, FiniteSets, TLC

VARIABLES
    \* configuration (module-level settings, fixed for a behaviour)
    pairs,            \* get_target_pairs(): list of (country, keyword)
    ADVERTISERS,      \* list of advertiser names
    CONTINUATION,     \* checkpoint-enabled flag
    APPEND,           \* append mode / numbered-file mode
    \* file system
    ckptFile,         \* CHECKPOINT_FILE
    outFiles,         \* output files: index 0 is <mode>.json, k is <mode>00k.json
    backupFiles,      \* backup_<name> of the output file with the same index
    \* the running process
    pc, run, done_pairs, idx, pair_object, OUTPUT_FILE,
    \* history of the runs (ghost state the claims are stated over)
    runExtracted,     \* TaskKeys extracted in the current run, in order
    runAppended,      \* TaskKeys whose save_data_immediately returned, this run
    prevExtracted,    \* TaskKeys whose extraction completed in an earlier run
    storedAtStart,    \* TaskKeys the checkpoint file stored when the run began
    ckptStored,       \* TaskKeys the checkpoint file stores now
    lastSaved,        \* set written by the last completed save_checkpoint
    written,          \* TaskKeys whose record was written to a file at some time
    killedIn,         \* where the last kill hit the process ("" before any kill)
    \* load_checkpoint applied to a file (SpecLoad)
    loadFile, loadCont, loadResult,
    \* the page extract_ads reads: the month strips, newest first
    page, nextId,
    \* extract_ads
    epc, limit, prefixes, total_now, seen_cards, dead_scrolls, ads,
    parsed_this_round, cumulative, pidx, n_cards, already, cidx,
    \* history of one extract_ads call
    visits,           \* (group, position) cards handed to _parse_card
    reparsed,         \* some card was handed to _parse_card a second time
    skipped,          \* positions whose try block raised (no card, or parse error)
    roundCalls,       \* _parse_card calls of the round in progress
    raced,            \* the page changed between a totalling pass and the round's end
    idleStreak,       \* probes without growth since the last probe that found growth
    \* one call of _count_cards_in_prefix: the strip's positions, gap, the result
    cnt_present, cnt_gap, cnt_total,
    \* the filter settings and one pass of main through _apply_filters_to_url
    STATUS, AD_CATEGORY, LANGUAGES, PLATFORMS, MEDIA_TYPE, START_DATE, END_DATE,
    base_url,         \* the query of the URL the browser was on at first
    current_url,      \* the query of sb.driver.current_url
    filtered_again,   \* the query _apply_filters_to_url gives for its own result
    fpc,
    \* app.py, rate_limit_check
    rl_now,           \* time.time(), in seconds
    request_tracker,  \* dict: client_ip -> list of request times
    rl_limit, rl_window,
    rl_result,        \* the client and the value of the call just made
    admitted,         \* per client, the times of the calls that returned True
    \* app.py, the background jobs
    active_jobs,      \* dict: job_id -> [status, error]; error is <<>> when unset
    job_kind,         \* per job, the run_*_scraper function that runs it
    jpc,              \* per job, where its run_*_scraper function stands
    process,          \* per job, the CompletedProcess (<<>> while None)
    job_seen,         \* per job, the last answer of GET /jobs/{job_id}
    first_terminal,   \* per job, the first terminal status it had ("" before)
    \* two scraper processes started by the API over the same files
    wpc, w_idx, w_done, w_existing,
    w_appended,       \* records whose save_data_immediately returned, any process
    w_marked,         \* TaskKeys whose save_checkpoint returned, any process
    \* one run of main, Task by Task
    MODE, SCRAPE_ADVERTISER_ADS,
    navigated,        \* the browser has opened a page in this run
    suggestions,      \* the suggestions of the Task that carry a page id
    sidx,             \* position in the suggestions (the advertiser loop)
    ads_from,         \* positions whose advertiser ads are in the Task's ads list
    interrupted,      \* TaskKeys whose extraction raised or was killed
    \* one call of _discover_month_prefixes on a DOM
    dom,              \* per month position, the card slots under div[4] and div[3]
    disc_result,      \* the prefixes returned (Null before the call)
    \* facebook_pages_scraper.py: main with its crash-recovery loop
    SEARCH_METHOD,    \* "keyword" or "url"
    PROGRESS_FILE,    \* progress.json: Null when absent, else [kw, lnk]
    AGG_FILE,         \* Results/all_pages.json: the pages appended, in order
    ACCOUNT_NUMBER,   \* the account in use
    kw_start, link_start, kw_i, link_i,
    ppc,              \* position of main
    failing,          \* pages whose scrape raises on every attempt
    faults,           \* transient exceptions and kills so far
    \* posts_scraper.py: main with APPEND_RESULTS false
    result_files,     \* the N for which Results/results_N.json exists
    out_path,         \* the N of the chosen results_N.json (0: none chosen)
    overwritten,      \* the result files of earlier runs that a run wrote over
    \* facebook_advertiser_ads.py: step 7 of scrape_pair
    ADS_LIMIT,        \* the configured limit per (country, keyword) pair
    libs,             \* per advertiser page, the cards its library page shows
    bpc,              \* position of scrape_pair
    lib_i,            \* the advertiser page the for loop is at
    pages_list,       \* len(result["ads"]) of every page scraped so far
    total_ads_extracted, remaining_limit,
    passed_limit,     \* the remaining_limit of the latest scrape_lib_page call
    total_at_call,    \* total_ads_extracted when that call was made
    \* app.py: POST /scrape/*
    handed_out        \* the job_ids a POST response has returned

cfgVars   == <<pairs, ADVERTISERS, CONTINUATION, APPEND>>
fsVars    == <<ckptFile, outFiles, backupFiles>>
procVars  == <<pc, run, done_pairs, idx, pair_object, OUTPUT_FILE>>
ghostVars == <<runExtracted, runAppended, prevExtracted, storedAtStart,
               ckptStored, lastSaved, written, killedIn>>
loadVars  == <<loadFile, loadCont, loadResult>>
orchVars  == <<cfgVars, fsVars, procVars, ghostVars>>
pageVars  == <<page, nextId>>
extVars   == <<epc, limit, prefixes, total_now, seen_cards, dead_scrolls, ads,
               parsed_this_round, cumulative, pidx, n_cards, already, cidx>>
histVars  == <<visits, reparsed, skipped, roundCalls, raced, idleStreak>>
countVars == <<cnt_present, cnt_gap, cnt_total>>
settingVars == <<STATUS, AD_CATEGORY, LANGUAGES, PLATFORMS, MEDIA_TYPE,
                 START_DATE, END_DATE>>
filterVars == <<settingVars, base_url, current_url, filtered_again, fpc>>
pureVars  == <<countVars, filterVars>>
scrapeVars == <<pageVars, extVars, histVars>>
rateVars  == <<rl_now, request_tracker, rl_limit, rl_window, rl_result, admitted>>
jobVars   == <<active_jobs, job_kind, jpc, process, job_seen, first_terminal>>
writerVars == <<wpc, w_idx, w_done, w_existing, w_appended, w_marked>>
taskVars  == <<MODE, SCRAPE_ADVERTISER_ADS, navigated, suggestions, sidx, ads_from,
               interrupted>>
discVars  == <<dom, disc_result>>
pagesVars == <<SEARCH_METHOD, PROGRESS_FILE, AGG_FILE, ACCOUNT_NUMBER, kw_start, link_start,
               kw_i, link_i, ppc, failing, faults>>
postsVars == <<result_files, out_path, overwritten>>
budgetVars == <<ADS_LIMIT, libs, bpc, lib_i, pages_list, total_ads_extracted,
                remaining_limit, passed_limit, total_at_call>>
lateVars  == <<discVars, pagesVars, postsVars, budgetVars, handed_out>>
nonBudgetVars == <<orchVars, loadVars, scrapeVars, pureVars, rateVars, jobVars, writerVars,
                   taskVars, discVars, pagesVars, postsVars, handed_out>>
nonPostsVars == <<orchVars, loadVars, scrapeVars, pureVars, rateVars, jobVars, writerVars,
                  taskVars, discVars, pagesVars, budgetVars, handed_out>>
nonPagesVars == <<orchVars, loadVars, scrapeVars, pureVars, rateVars, jobVars, writerVars,
                  taskVars, discVars, postsVars, budgetVars, handed_out>>
apiVars   == <<rateVars, jobVars, writerVars, taskVars, lateVars>>
nonDiscVars == <<orchVars, loadVars, scrapeVars, pureVars, rateVars, jobVars, writerVars,
                 taskVars, pagesVars, postsVars, budgetVars, handed_out>>
nonRateVars == <<orchVars, loadVars, scrapeVars, pureVars, jobVars, writerVars, taskVars,
                 lateVars>>
nonJobVars == <<orchVars, loadVars, scrapeVars, pureVars, rateVars, writerVars, taskVars,
                lateVars>>
nonWriterVars == <<cfgVars, backupFiles, procVars, ghostVars, loadVars, scrapeVars,
                   pureVars, rateVars, jobVars, taskVars, lateVars>>
nonTaskVars == <<loadVars, scrapeVars, pureVars, rateVars, jobVars, writerVars, lateVars>>
otherVars == <<loadVars, scrapeVars, pureVars, apiVars>>
vars      == <<cfgVars, fsVars, procVars, ghostVars, loadVars, scrapeVars, pureVars,
               apiVars>>

(***************************************************************************)
(* Python / JSON values.  A decoded JSON value is a record [t, v, items]:  *)
(* null, a number, a string, a list of values, an object (its keys, the    *)
(* only part iteration sees), or "invalid" for text that json.loads        *)
(* rejects.  A Python tuple is a TLA+ sequence of such values.             *)
(***************************************************************************)
Null      == [t |-> "null", v |-> "", items |-> <<>>]
Num(x)    == [t |-> "num", v |-> x, items |-> <<>>]
Str(x)    == [t |-> "str", v |-> x, items |-> <<>>]
List(s)   == [t |-> "list", v |-> "", items |-> s]
Obj(keys) == [t |-> "obj", v |-> "", items |-> keys]
Invalid   == [t |-> "invalid", v |-> "", items |-> <<>>]

\* the characters of the strings the model uses (iteration over a str)
CharsOf(s) ==
    CASE s = "TH" -> <<"T", "H">>
      [] s = "k1" -> <<"k", "1">>
      [] s = "k2" -> <<"k", "2">>
      [] s = "ad" -> <<"a", "d">>
      [] OTHER    -> <<s>>

Range(s) == {s[i] : i \in 1..Len(s)}

\* iter(x): what a for loop or tuple() sees; ok = FALSE is a TypeError
Iter(x) ==
    CASE x.t = "list" -> [ok |-> TRUE, items |-> x.items]
      [] x.t = "obj"  -> [ok |-> TRUE, items |-> x.items]
      [] x.t = "str"  -> [ok |-> TRUE,
                          items |-> [i \in 1..Len(CharsOf(x.v)) |-> Str(CharsOf(x.v)[i])]]
      [] OTHER        -> [ok |-> FALSE, items |-> <<>>]

\* hash(x) succeeds: lists and dicts are unhashable
Hashable(x) == x.t \in {"null", "num", "str"}

\* {tuple(p) for p in data}: raises TypeError when data or a p is not
\* iterable or when a tuple holds an unhashable element
TupleSet(data) ==
    LET outer == Iter(data)
        bad(p) == \/ ~Iter(p).ok
                  \/ \E i \in 1..Len(Iter(p).items) : ~Hashable(Iter(p).items[i])
    IN  IF ~outer.ok \/ \E i \in 1..Len(outer.items) : bad(outer.items[i])
        THEN [raised |-> TRUE, value |-> {}]
        ELSE [raised |-> FALSE,
              value |-> {Iter(outer.items[i]).items : i \in 1..Len(outer.items)}]

(***************************************************************************)
(* Files.  A file is missing, or holds bytes; utf8 says whether the bytes  *)
(* decode as UTF-8, and json is what json.loads gives for the decoded text *)
(* (decoded as UTF-8, or as cp1252/latin1 when they are not UTF-8).        *)
(***************************************************************************)
Missing   == [exists |-> FALSE, utf8 |-> TRUE, json |-> Invalid]
File(j)   == [exists |-> TRUE, utf8 |-> TRUE, json |-> j]
Bytes(j)  == [exists |-> TRUE, utf8 |-> FALSE, json |-> j]
Truncated == File(Invalid)

\* load_checkpoint of ads_and_suggestions_scraper; "raised" is an exception
\* that leaves the function
LoadEmptyAlways(file, cont) == [raised |-> FALSE, value |-> {}]
load_checkpoint(file, cont) ==
    IF ~cont \/ ~file.exists
    THEN [raised |-> FALSE, value |-> {}]
    ELSE IF file.utf8
         THEN \* json.loads(read_text("utf-8")); except Exception -> set()
              IF file.json.t = "invalid" \/ TupleSet(file.json).raised
              THEN [raised |-> FALSE, value |-> {}]
              ELSE [raised |-> FALSE, value |-> TupleSet(file.json).value]
         ELSE \* UnicodeDecodeError: cp1252, latin1, iso-8859-1 in turn; the
              \* first that parses returns, a failure continues, then set()
              IF file.json.t = "invalid" \/ TupleSet(file.json).raised
              THEN [raised |-> FALSE, value |-> {}]
              ELSE [raised |-> FALSE, value |-> TupleSet(file.json).value]

\* load_checkpoint of facebook_advertiser_ads: read_text() in the default
\* (UTF-8) encoding, every Exception gives set()
adv_load_checkpoint(file, cont) ==
    IF ~cont \/ ~file.exists
    THEN [raised |-> FALSE, value |-> {}]
    ELSE IF ~file.utf8 \/ file.json.t = "invalid" \/ TupleSet(file.json).raised
         THEN [raised |-> FALSE, value |-> {}]
         ELSE [raised |-> FALSE, value |-> TupleSet(file.json).value]

\* an arbitrary but fixed enumeration of a finite set (set iteration order)
RECURSIVE SetToSeq(_)
SetToSeq(S) ==
    IF S = {} THEN <<>>
    ELSE LET x == CHOOSE y \in S : TRUE IN <<x>> \o SetToSeq(S \ {x})

\* json.dump([list(p) for p in done_pairs]): the JSON text save_checkpoint writes
DumpPairs(done) ==
    LET s == SetToSeq(done) IN List([i \in 1..Len(s) |-> List(s[i])])

(***************************************************************************)
(* Bounds of the model.                                                    *)
(***************************************************************************)
MaxRuns  == 2       \* runs of the process (the first and its restarts)

\* the configured pair lists: empty, one pair, a repeated pair, two pairs
Pair1 == <<Str("TH"), Str("k1")>>
Pair2 == <<Str("TH"), Str("k2")>>
PairLists == {<<>>, <<Pair1>>, <<Pair1, Pair1>>, <<Pair1, Pair2>>}
AdvertiserLists == {<<>>, <<Str("ad")>>}
LongestPairList == CHOOSE n \in 0..9 : /\ \E l \in PairLists : Len(l) = n
                                      /\ \A l \in PairLists : Len(l) <= n
\* numbered output files a behaviour can create (one per save)
MaxFiles == MaxRuns * LongestPairList + 1
RECURSIVE SeqsUpTo(_, _)
SeqsUpTo(S, n) ==
    IF n = 0 THEN {<<>>}
    ELSE LET shorter == SeqsUpTo(S, n - 1)
         IN  shorter \cup {Append(s, x) : s \in {q \in shorter : Len(q) = n - 1}, x \in S}

(***************************************************************************)
(* main of ads_and_suggestions_scraper.                                    *)
(***************************************************************************)
\* product(pairs, ADVERTISERS or [None]), pairs-major
Triples ==
    LET advs == IF ADVERTISERS = <<>> THEN <<Null>> ELSE ADVERTISERS
    IN  [n \in 1..(Len(pairs) * Len(advs)) |->
            <<pairs[((n - 1) \div Len(advs)) + 1], advs[((n - 1) % Len(advs)) + 1]>>]

\* (country, keyword, advertiser)
TaskKey(t) == <<t[1][1], t[1][2], t[2]>>

\* one Task's OutputRecord, as it is written by the run that built it
Record(k, r) == [key |-> k, run |-> r]

\* next_output_path(mode): the index of the file it names
next_output_path ==
    IF APPEND THEN 0
    ELSE CHOOSE k \in 1..MaxFiles :
            /\ ~outFiles[k].exists
            /\ \A j \in 1..(k - 1) : outFiles[j].exists

\* save_data_immediately, reading the existing collection
ReadExisting(f) ==
    IF f.exists /\ APPEND
    THEN IF f.json.t = "list" THEN f.json.items ELSE <<>>
    ELSE <<>>

\* what a failed write_text leaves: the file untouched (open failed) or
\* truncated (the write failed after open("w"))
FailedWrite(f) == {f, Truncated}

RunMain == pc \in {"loop", "extracted", "saved"}

StartRun ==
    /\ pc \in {"idle", "done", "aborted", "dead"}
    /\ run < MaxRuns
    /\ run' = run + 1
    /\ IF pairs = <<>>
       THEN /\ pc' = "aborted"             \* sys.exit("[ERR] No ... pairs found.")
            /\ done_pairs' = {}
       ELSE /\ pc' = "loop"
            /\ done_pairs' = load_checkpoint(ckptFile, CONTINUATION).value
    /\ idx' = 1
    /\ pair_object' = Null
    /\ runExtracted' = <<>>
    /\ runAppended' = <<>>
    /\ prevExtracted' = prevExtracted \cup Range(runExtracted)
    /\ storedAtStart' = ckptStored
    /\ UNCHANGED <<cfgVars, fsVars, OUTPUT_FILE, ckptStored, lastSaved, written,
                   killedIn, otherVars>>

\* line 881: the TaskKey is in done_pairs
Skip ==
    /\ pc = "loop" /\ idx <= Len(Triples)
    /\ TaskKey(Triples[idx]) \in done_pairs
    /\ idx' = idx + 1
    /\ UNCHANGED <<cfgVars, fsVars, pc, run, done_pairs, pair_object, OUTPUT_FILE,
                   ghostVars, otherVars>>

\* lines 885-1036: navigation and extraction succeed, pair_object is built
Extract ==
    /\ pc = "loop" /\ idx <= Len(Triples)
    /\ TaskKey(Triples[idx]) \notin done_pairs
    /\ pc' = "extracted"
    /\ pair_object' = Record(TaskKey(Triples[idx]), run)
    /\ runExtracted' = Append(runExtracted, TaskKey(Triples[idx]))
    /\ UNCHANGED <<cfgVars, fsVars, run, done_pairs, idx, OUTPUT_FILE, runAppended,
                   prevExtracted, storedAtStart, ckptStored, lastSaved, written,
                   killedIn, otherVars>>

\* lines 887-1010: wait_click, safe_type or the country selection raises;
\* main has no handler, the exception ends the run
ExtractFails ==
    /\ pc = "loop" /\ idx <= Len(Triples)
    /\ TaskKey(Triples[idx]) \notin done_pairs
    /\ pc' = "aborted"
    /\ UNCHANGED <<cfgVars, fsVars, run, done_pairs, idx, pair_object, OUTPUT_FILE,
                   ghostVars, otherVars>>

\* save_data_immediately(pair_object, MODE), the primary write succeeds
SavePrimary ==
    /\ pc = "extracted"
    /\ LET n == next_output_path
           existing == ReadExisting(outFiles[n])
       IN  outFiles' = [outFiles EXCEPT ![n] = File(List(Append(existing, pair_object)))]
    /\ pc' = "saved"
    /\ runAppended' = Append(runAppended, pair_object.key)
    /\ written' = written \cup {pair_object.key}
    /\ UNCHANGED <<cfgVars, ckptFile, backupFiles, run, done_pairs, idx, pair_object,
                   OUTPUT_FILE, runExtracted, prevExtracted, storedAtStart, ckptStored,
                   lastSaved, killedIn, otherVars>>

\* save_data_immediately that re-raises although the backup was written
SaveBackupReraises ==
    /\ pc = "extracted"
    /\ LET n == next_output_path
       IN  /\ \E f \in FailedWrite(outFiles[n]) : outFiles' = [outFiles EXCEPT ![n] = f]
           /\ backupFiles' = [backupFiles EXCEPT ![n] = File(List(<<pair_object>>))]
    /\ pc' = "aborted"
    /\ UNCHANGED <<cfgVars, ckptFile, run, done_pairs, idx, pair_object, OUTPUT_FILE,
                   ghostVars, otherVars>>

\* save_data_immediately, the primary write raises and the record alone goes
\* to backup_<name>
SaveBackup ==
    /\ pc = "extracted"
    /\ LET n == next_output_path
       IN  /\ \E f \in FailedWrite(outFiles[n]) : outFiles' = [outFiles EXCEPT ![n] = f]
           /\ backupFiles' = [backupFiles EXCEPT ![n] = File(List(<<pair_object>>))]
    /\ pc' = "saved"
    /\ runAppended' = Append(runAppended, pair_object.key)
    /\ written' = written \cup {pair_object.key}
    /\ UNCHANGED <<cfgVars, ckptFile, run, done_pairs, idx, pair_object,
                   OUTPUT_FILE, runExtracted, prevExtracted, storedAtStart, ckptStored,
                   lastSaved, killedIn, otherVars>>

\* save_data_immediately, the backup write raises too: raise e leaves main
SaveFails ==
    /\ pc = "extracted"
    /\ LET n == next_output_path
       IN  /\ \E f \in FailedWrite(outFiles[n]) : outFiles' = [outFiles EXCEPT ![n] = f]
           /\ \E b \in FailedWrite(backupFiles[n]) :
                 backupFiles' = [backupFiles EXCEPT ![n] = b]
    /\ pc' = "aborted"
    /\ UNCHANGED <<cfgVars, ckptFile, run, done_pairs, idx, pair_object, OUTPUT_FILE,
                   ghostVars, otherVars>>

\* save_checkpoint(done_pairs)
save_checkpoint_skipped(done) == ckptFile
save_checkpoint(done) == File(DumpPairs(done))

\* line 1040: done_pairs.add((country, keyword, advertiser))
AddDoneForgets(done, k) == done
AddDone(done, k) == done \cup {k}

\* lines 1040-1041: done_pairs.add(...); save_checkpoint(done_pairs)
Mark ==
    /\ pc = "saved"
    /\ done_pairs' = AddDone(done_pairs, TaskKey(Triples[idx]))
    /\ ckptFile' = save_checkpoint(done_pairs')
    /\ ckptStored' = done_pairs'
    /\ lastSaved' = done_pairs'
    /\ idx' = idx + 1
    /\ pc' = "loop"
    /\ UNCHANGED <<cfgVars, outFiles, backupFiles, run, pair_object, OUTPUT_FILE,
                   runExtracted, runAppended, prevExtracted, storedAtStart, written,
                   killedIn, otherVars>>

\* save_checkpoint raises (open or write failed): the exception ends the run
MarkFails ==
    /\ pc = "saved"
    /\ done_pairs' = AddDone(done_pairs, TaskKey(Triples[idx]))
    /\ \E f \in FailedWrite(ckptFile) :
          /\ ckptFile' = f
          /\ ckptStored' = IF f = ckptFile THEN ckptStored ELSE {}
    /\ pc' = "aborted"
    /\ UNCHANGED <<cfgVars, outFiles, backupFiles, run, idx, pair_object, OUTPUT_FILE,
                   runExtracted, runAppended, prevExtracted, storedAtStart, lastSaved,
                   written, killedIn, otherVars>>

\* the for loop is exhausted
Finish ==
    /\ pc = "loop" /\ idx > Len(Triples)
    /\ pc' = "done"
    /\ UNCHANGED <<cfgVars, fsVars, run, done_pairs, idx, pair_object, OUTPUT_FILE,
                   ghostVars, otherVars>>

\* the process is killed between two steps
Kill ==
    /\ RunMain
    /\ pc' = "dead"
    /\ killedIn' = "between"
    /\ UNCHANGED <<cfgVars, fsVars, run, done_pairs, idx, pair_object, OUTPUT_FILE,
                   runExtracted, runAppended, prevExtracted, storedAtStart, ckptStored,
                   lastSaved, written, otherVars>>

\* the process is killed inside out_file.write_text: open("w") has truncated
\* the file and the text is not (wholly) written
KillInOutputWrite ==
    /\ pc = "extracted"
    /\ outFiles' = [outFiles EXCEPT ![next_output_path] = Truncated]
    /\ pc' = "dead"
    /\ killedIn' = "write_text"
    /\ UNCHANGED <<cfgVars, ckptFile, backupFiles, run, done_pairs, idx, pair_object,
                   OUTPUT_FILE, runExtracted, runAppended, prevExtracted, storedAtStart,
                   ckptStored, lastSaved, written, otherVars>>

\* the process is killed inside save_checkpoint, after open("w") and before
\* json.dump has written the whole list
KillInSaveCheckpoint ==
    /\ pc = "saved"
    /\ ckptFile' = Truncated
    /\ ckptStored' = {}
    /\ pc' = "dead"
    /\ killedIn' = "save_checkpoint"
    /\ UNCHANGED <<cfgVars, outFiles, backupFiles, run, done_pairs, idx, pair_object,
                   OUTPUT_FILE, runExtracted, runAppended, prevExtracted, storedAtStart,
                   lastSaved, written, otherVars>>

NoFiles == [k \in 0..MaxFiles |-> Missing]

\* the parts of the state a specification does not use
NoLoad == loadFile = Missing /\ loadCont = FALSE /\ loadResult = Null
NoCount == cnt_present = {} /\ cnt_gap = 0 /\ cnt_total = -1
NoFilter ==
    /\ STATUS = "active" /\ AD_CATEGORY = "all" /\ LANGUAGES = <<>> /\ PLATFORMS = <<>>
    /\ MEDIA_TYPE = "all" /\ START_DATE = "" /\ END_DATE = ""
    /\ base_url = <<>> /\ current_url = <<>> /\ filtered_again = <<>> /\ fpc = "idle"
NoRate ==
    /\ rl_now = 0 /\ request_tracker = <<>> /\ rl_limit = 0 /\ rl_window = 0
    /\ rl_result = Null /\ admitted = <<>>
NoJobs ==
    /\ active_jobs = <<>> /\ job_kind = <<>> /\ jpc = <<>> /\ process = <<>>
    /\ job_seen = <<>> /\ first_terminal = <<>>
NoWriters ==
    /\ wpc = <<>> /\ w_idx = <<>> /\ w_done = <<>> /\ w_existing = <<>>
    /\ w_appended = {} /\ w_marked = {}
NoTask ==
    /\ MODE = "ads" /\ SCRAPE_ADVERTISER_ADS = FALSE /\ navigated = FALSE
    /\ suggestions = 0 /\ sidx = 0 /\ ads_from = {} /\ interrupted = {}
NoDisc == dom = <<>> /\ disc_result = Null
NoPages ==
    /\ SEARCH_METHOD = "url" /\ PROGRESS_FILE = Null /\ AGG_FILE = <<>>
    /\ ACCOUNT_NUMBER = 0 /\ kw_start = 0 /\ link_start = 0 /\ kw_i = 0 /\ link_i = 0
    /\ ppc = "idle" /\ failing = {} /\ faults = 0
NoPosts == result_files = {} /\ out_path = 0 /\ overwritten = {}
NoBudget ==
    /\ ADS_LIMIT = 0 /\ libs = <<>> /\ bpc = "idle" /\ lib_i = 0 /\ pages_list = <<>>
    /\ total_ads_extracted = 0 /\ remaining_limit = 0
    /\ passed_limit = 0 /\ total_at_call = 0
NoHanded == handed_out = {}
NoLate == NoDisc /\ NoPages /\ NoPosts /\ NoBudget /\ NoHanded
NoApi == NoRate /\ NoJobs /\ NoWriters /\ NoTask /\ NoLate
NoPure == NoCount /\ NoFilter /\ NoApi
NoScrape ==
    /\ page = <<>> /\ nextId = 1
    /\ epc = "idle" /\ limit = 0 /\ prefixes = <<>> /\ total_now = 0
    /\ seen_cards = 0 /\ dead_scrolls = 0 /\ ads = <<>>
    /\ parsed_this_round = 0 /\ cumulative = 0 /\ pidx = 0
    /\ n_cards = 0 /\ already = 0 /\ cidx = 0
    /\ visits = {} /\ reparsed = FALSE /\ skipped = 0
    /\ roundCalls = 0 /\ raced = FALSE /\ idleStreak = 0

\* a fresh directory, or the files a previous append-mode run over some of
\* the TaskKeys left behind
InitMain ==
    /\ pairs \in PairLists
    /\ ADVERTISERS \in AdvertiserLists
    /\ CONTINUATION \in BOOLEAN
    /\ APPEND \in BOOLEAN
    /\ \E S \in SUBSET {TaskKey(Triples[i]) : i \in 1..Len(Triples)} :
          /\ ckptFile = IF S = {} THEN Missing ELSE File(DumpPairs(S))
          /\ outFiles = IF S = {} THEN NoFiles
                        ELSE [NoFiles EXCEPT ![0] =
                                File(List([i \in 1..Cardinality(S) |->
                                             Record(SetToSeq(S)[i], 0)]))]
          /\ ckptStored = S
          /\ lastSaved = S
          /\ written = S
    /\ backupFiles = NoFiles
    /\ pc = "idle" /\ run = 0 /\ done_pairs = {} /\ idx = 1
    /\ pair_object = Null /\ OUTPUT_FILE = 0
    /\ runExtracted = <<>> /\ runAppended = <<>> /\ prevExtracted = {}
    /\ storedAtStart = {} /\ killedIn = ""
    /\ NoLoad /\ NoScrape /\ NoPure

NextMain ==
    \/ StartRun
    \/ Skip
    \/ Extract
    \/ ExtractFails
    \/ SavePrimary
    \/ SaveBackup
    \/ SaveFails
    \/ Mark
    \/ MarkFails
    \/ Finish
    \/ Kill
    \/ KillInOutputWrite
    \/ KillInSaveCheckpoint

SpecMain == InitMain /\ [][NextMain]_vars

(***************************************************************************)
(* facebook_advertiser_ads: main, run_advertiser_scraping_logic,           *)
(* scrape_pair.  A TaskKey is the pair (country, keyword).                 *)
(***************************************************************************)
\* line 89: the module overrides the environment's CONTINUATION
ADV_CONTINUATION == FALSE

\* get_output_file(): the index of the file it names
get_output_file ==
    IF APPEND THEN 0
    ELSE CHOOSE k \in 1..MaxFiles :
            /\ ~outFiles[k].exists
            /\ \A j \in 1..(k - 1) : outFiles[j].exists

RunAdv == pc \in {"adv_loop", "adv_scraped"}

\* module import (OUTPUT_FILE = get_output_file()), main up to the for loop
AdvStart ==
    /\ pc \in {"idle", "done", "dead"}
    /\ run < MaxRuns
    /\ run' = run + 1
    /\ OUTPUT_FILE' = get_output_file
    /\ IF pairs = <<>>
       THEN /\ pc' = "done"                \* "[WARN] No (country, keyword) pairs supplied."
            /\ done_pairs' = {}
            /\ outFiles' = outFiles
       ELSE /\ pc' = "adv_loop"
            /\ done_pairs' = adv_load_checkpoint(ckptFile, ADV_CONTINUATION).value
            \* lines 534-536: create the output file when it is missing
            /\ outFiles' = IF outFiles[OUTPUT_FILE'].exists THEN outFiles
                           ELSE [outFiles EXCEPT ![OUTPUT_FILE'] = File(List(<<>>))]
    /\ idx' = 1
    /\ pair_object' = Null
    /\ runExtracted' = <<>>
    /\ runAppended' = <<>>
    /\ prevExtracted' = prevExtracted \cup Range(runExtracted)
    /\ storedAtStart' = ckptStored
    /\ UNCHANGED <<cfgVars, ckptFile, backupFiles, ckptStored, lastSaved, written,
                   killedIn, otherVars>>

\* lines 539-541
AdvSkip ==
    /\ pc = "adv_loop" /\ idx <= Len(pairs)
    /\ pairs[idx] \in done_pairs
    /\ idx' = idx + 1
    /\ UNCHANGED <<cfgVars, fsVars, pc, run, done_pairs, pair_object, OUTPUT_FILE,
                   ghostVars, otherVars>>

\* scrape_pair returns at "No ads found" (or at the caught extract_cards
\* error): nothing is saved
AdvScrapeNoAds ==
    /\ pc = "adv_loop" /\ idx <= Len(pairs)
    /\ pairs[idx] \notin done_pairs
    /\ pc' = "adv_scraped"
    /\ runExtracted' = Append(runExtracted, pairs[idx])
    /\ UNCHANGED <<cfgVars, fsVars, run, done_pairs, idx, pair_object, OUTPUT_FILE,
                   runAppended, prevExtracted, storedAtStart, ckptStored, lastSaved,
                   written, killedIn, otherVars>>

\* save_data_immediately of facebook_advertiser_ads can write: the existing
\* file is absent, not read (numbered mode), or parses
AdvReadable(f) == ~(f.exists /\ APPEND) \/ (f.utf8 /\ f.json.t # "invalid")
AdvExisting(f) ==
    IF f.exists /\ APPEND /\ f.json.t = "list" THEN f.json.items ELSE <<>>

\* scrape_pair to its end, save_data_immediately writes the collection
AdvScrapeSaved ==
    /\ pc = "adv_loop" /\ idx <= Len(pairs)
    /\ pairs[idx] \notin done_pairs
    /\ AdvReadable(outFiles[OUTPUT_FILE])
    /\ outFiles' = [outFiles EXCEPT ![OUTPUT_FILE] =
                      File(List(Append(AdvExisting(outFiles[OUTPUT_FILE]),
                                       Record(pairs[idx], run))))]
    /\ pc' = "adv_scraped"
    /\ runExtracted' = Append(runExtracted, pairs[idx])
    /\ runAppended' = Append(runAppended, pairs[idx])
    /\ written' = written \cup {pairs[idx]}
    /\ UNCHANGED <<cfgVars, ckptFile, backupFiles, run, done_pairs, idx, pair_object,
                   OUTPUT_FILE, prevExtracted, storedAtStart, ckptStored, lastSaved,
                   killedIn, otherVars>>

\* scrape_pair to its end, save_data_immediately fails (the existing file does
\* not parse, or the write raises): "[ERROR] Failed to save data" and return
AdvScrapeSaveFails ==
    /\ pc = "adv_loop" /\ idx <= Len(pairs)
    /\ pairs[idx] \notin done_pairs
    /\ IF AdvReadable(outFiles[OUTPUT_FILE])
       THEN \E f \in FailedWrite(outFiles[OUTPUT_FILE]) :
               outFiles' = [outFiles EXCEPT ![OUTPUT_FILE] = f]
       ELSE outFiles' = outFiles
    /\ pc' = "adv_scraped"
    /\ runExtracted' = Append(runExtracted, pairs[idx])
    /\ UNCHANGED <<cfgVars, ckptFile, backupFiles, run, done_pairs, idx, pair_object,
                   OUTPUT_FILE, runAppended, prevExtracted, storedAtStart, ckptStored,
                   lastSaved, written, killedIn, otherVars>>

\* scrape_pair raises (wait_click, safe_type): caught at line 547, the pair
\* is not marked and the loop goes on
AdvScrapeRaises ==
    /\ pc = "adv_loop" /\ idx <= Len(pairs)
    /\ pairs[idx] \notin done_pairs
    /\ idx' = idx + 1
    /\ UNCHANGED <<cfgVars, fsVars, pc, run, done_pairs, pair_object, OUTPUT_FILE,
                   ghostVars, otherVars>>

\* lines 545-546: done_pairs.add((country, keyword)); save_checkpoint(done_pairs)
AdvMark ==
    /\ pc = "adv_scraped"
    /\ done_pairs' = done_pairs \cup {pairs[idx]}
    /\ ckptFile' = File(DumpPairs(done_pairs'))
    /\ ckptStored' = done_pairs'
    /\ lastSaved' = done_pairs'
    /\ idx' = idx + 1
    /\ pc' = "adv_loop"
    /\ UNCHANGED <<cfgVars, outFiles, backupFiles, run, pair_object, OUTPUT_FILE,
                   runExtracted, runAppended, prevExtracted, storedAtStart, written,
                   killedIn, otherVars>>

\* save_checkpoint raises: caught at line 547, the loop goes on
AdvMarkFails ==
    /\ pc = "adv_scraped"
    /\ done_pairs' = done_pairs \cup {pairs[idx]}
    /\ \E f \in FailedWrite(ckptFile) :
          /\ ckptFile' = f
          /\ ckptStored' = IF f = ckptFile THEN ckptStored ELSE {}
    /\ idx' = idx + 1
    /\ pc' = "adv_loop"
    /\ UNCHANGED <<cfgVars, outFiles, backupFiles, run, pair_object, OUTPUT_FILE,
                   runExtracted, runAppended, prevExtracted, storedAtStart, lastSaved,
                   written, killedIn, otherVars>>

AdvFinish ==
    /\ pc = "adv_loop" /\ idx > Len(pairs)
    /\ pc' = "done"
    /\ UNCHANGED <<cfgVars, fsVars, run, done_pairs, idx, pair_object, OUTPUT_FILE,
                   ghostVars, otherVars>>

AdvKill ==
    /\ RunAdv
    /\ pc' = "dead"
    /\ killedIn' = "between"
    /\ UNCHANGED <<cfgVars, fsVars, run, done_pairs, idx, pair_object, OUTPUT_FILE,
                   runExtracted, runAppended, prevExtracted, storedAtStart, ckptStored,
                   lastSaved, written, otherVars>>

InitAdv ==
    /\ pairs \in PairLists
    /\ ADVERTISERS = <<>>
    \* the environment's CONTINUATION (line 66; app.py line 602 sets it)
    /\ CONTINUATION \in BOOLEAN
    /\ APPEND \in BOOLEAN
    /\ \E S \in SUBSET Range(pairs) :
          /\ ckptFile = IF S = {} THEN Missing ELSE File(DumpPairs(S))
          /\ outFiles = IF S = {} THEN NoFiles
                        ELSE [NoFiles EXCEPT ![0] =
                                File(List([i \in 1..Cardinality(S) |->
                                             Record(SetToSeq(S)[i], 0)]))]
          /\ ckptStored = S
          /\ lastSaved = S
          /\ written = S
    /\ backupFiles = NoFiles
    /\ pc = "idle" /\ run = 0 /\ done_pairs = {} /\ idx = 1
    /\ pair_object = Null /\ OUTPUT_FILE = 0
    /\ runExtracted = <<>> /\ runAppended = <<>> /\ prevExtracted = {}
    /\ storedAtStart = {} /\ killedIn = ""
    /\ NoLoad /\ NoScrape /\ NoPure

NextAdv ==
    \/ AdvStart
    \/ AdvSkip
    \/ AdvScrapeNoAds
    \/ AdvScrapeSaved
    \/ AdvScrapeSaveFails
    \/ AdvScrapeRaises
    \/ AdvMark
    \/ AdvMarkFails
    \/ AdvFinish
    \/ AdvKill

SpecAdv == InitAdv /\ [][NextAdv]_vars

(***************************************************************************)
(* The two load_checkpoint functions applied to checkpoint files.          *)
(***************************************************************************)
JsonAtoms == {Null, Num("1"), Str("TH"), Str("k1")}
JsonInner ==
    JsonAtoms \cup
    { List(<<>>),
      List(<<Str("TH"), Str("k1")>>),
      List(<<Str("TH"), Str("k1"), Null>>),
      List(<<Str("TH"), Str("k2"), Str("ad")>>),
      List(<<List(<<Str("TH")>>), Str("k1"), Null>>),
      Obj(<<Str("TH")>>) }
MaxItems == 2       \* items of the top-level JSON list
JsonTop ==
    {Invalid} \cup JsonAtoms \cup {Obj(<<>>), Obj(<<Str("k1")>>)}
    \cup {List(s) : s \in SeqsUpTo(JsonInner, MaxItems)}
CkptFiles == {Missing} \cup {File(j) : j \in JsonTop} \cup {Bytes(j) : j \in JsonTop}

LoadMain ==
    /\ loadResult = Null
    /\ loadResult' = [fn |-> "main"] @@ load_checkpoint(loadFile, loadCont)
    /\ UNCHANGED <<cfgVars, fsVars, procVars, ghostVars, loadFile, loadCont, scrapeVars,
                   pureVars, apiVars>>

LoadAdv ==
    /\ loadResult = Null
    /\ loadResult' = [fn |-> "adv"] @@ adv_load_checkpoint(loadFile, loadCont)
    /\ UNCHANGED <<cfgVars, fsVars, procVars, ghostVars, loadFile, loadCont, scrapeVars,
                   pureVars, apiVars>>

InitLoad ==
    /\ loadFile \in CkptFiles
    /\ loadCont \in BOOLEAN
    /\ loadResult = Null
    /\ pairs = <<>> /\ ADVERTISERS = <<>> /\ CONTINUATION = loadCont /\ APPEND = TRUE
    /\ ckptFile = loadFile /\ outFiles = NoFiles /\ backupFiles = NoFiles
    /\ pc = "idle" /\ run = 0 /\ done_pairs = {} /\ idx = 1
    /\ pair_object = Null /\ OUTPUT_FILE = 0
    /\ runExtracted = <<>> /\ runAppended = <<>> /\ prevExtracted = {}
    /\ storedAtStart = {} /\ ckptStored = {} /\ lastSaved = {} /\ written = {}
    /\ killedIn = ""
    /\ NoScrape /\ NoPure

NextLoad ==
    \/ LoadMain
    \/ LoadAdv

SpecLoad == InitLoad /\ [][NextLoad]_vars

(***************************************************************************)
(* Claims about the checkpoint store, the result sink and the orchestrators *)
(***************************************************************************)
AllKeys == {TaskKey(Triples[i]) : i \in 1..Len(Triples)}

\* the records a file holds as a JSON list
RecordsIn(f) ==
    IF f.exists /\ f.json.t = "list" THEN Range(f.json.items) ELSE {}
Persisted ==
    {r.key : r \in UNION {RecordsIn(outFiles[n]) \cup RecordsIn(backupFiles[n]) :
                            n \in 0..MaxFiles}}

\* C1 (idempotent resumption): with continuation enabled, a run of main never
\* extracts and never appends a record for a TaskKey the checkpoint file
\* stored when the run began, and a run that reaches its end has extracted
\* exactly the TaskKeys of the task list that were not stored.
C1_IdempotentResumption ==
    (CONTINUATION /\ run >= 1) =>
        /\ Range(runExtracted) \cap storedAtStart = {}
        /\ Range(runAppended) \cap storedAtStart = {}
        /\ pc = "done" => Range(runExtracted) = AllKeys \ storedAtStart

\* a completed run that skipped a stored TaskKey and extracted another one,
\* the stored one coming later in the task list (a subset, not a prefix)
C1_Witness ==
    /\ CONTINUATION /\ pc = "done"
    /\ runExtracted # <<>>
    /\ \E i, j \in 1..Len(Triples) :
          /\ i < j
          /\ TaskKey(Triples[i]) \in Range(runExtracted)
          /\ TaskKey(Triples[j]) \in storedAtStart

\* C2 (persist before checkpoint): every TaskKey the checkpoint file stores
\* has had its OutputRecord written to a file.
C2_PersistBeforeCheckpoint == ckptStored \subseteq written

\* C3 (at most once per run): within one run of main no TaskKey is extracted
\* twice and no TaskKey is appended twice.
C3_AtMostOncePerRun ==
    /\ \A i, j \in 1..Len(runExtracted) : runExtracted[i] = runExtracted[j] => i = j
    /\ \A i, j \in 1..Len(runAppended) : runAppended[i] = runAppended[j] => i = j

\* a run without continuation over a pair list that repeats a pair reached
\* its end having extracted the pair once
C3_Witness ==
    /\ ~CONTINUATION /\ pc = "done"
    /\ \E i, j \in 1..Len(pairs) : i < j /\ pairs[i] = pairs[j]
    /\ Len(runExtracted) = 1 /\ Len(runAppended) = 1

\* C4 (at-least-once persistence): every TaskKey the checkpoint file stores
\* has its OutputRecord in an output file or in a backup file.
C4_AtLeastOncePersisted == ckptStored \subseteq Persisted

\* C5 (bounded replay window): after a kill and a restart with continuation,
\* at most one TaskKey extracted in an earlier run is extracted again.
C5_BoundedReplay ==
    (CONTINUATION /\ killedIn # "" /\ pc # "dead") =>
        Cardinality(Range(runExtracted) \cap prevExtracted) <= 1

\* C6 (atomic checkpoint write): after a kill inside save_checkpoint,
\* load_checkpoint returns the set stored by the last completed save.
C6_AtomicCheckpointWrite ==
    (pc = "dead" /\ killedIn = "save_checkpoint") =>
        load_checkpoint(ckptFile, TRUE).value = lastSaved

\* the file stores a list of TaskKeys of the function's arity
IsKey(x, n) ==
    /\ x.t = "list" /\ Len(x.items) = n
    /\ \A i \in 1..n : x.items[i].t \in (IF i = 3 THEN {"str", "null"} ELSE {"str"})
IsKeyList(j, n) == j.t = "list" /\ \A i \in 1..Len(j.items) : IsKey(j.items[i], n)

\* C7 (load never raises): load_checkpoint raises nothing, and returns the
\* empty set for a missing file, bytes that are not UTF-8, invalid JSON and
\* JSON that is not a list of TaskKeys.
C7_LoadNeverRaises ==
    loadResult # Null =>
        /\ ~loadResult.raised
        /\ ( \/ ~loadFile.exists
             \/ ~loadFile.utf8
             \/ loadFile.json.t = "invalid"
             \/ ~IsKeyList(loadFile.json, IF loadResult.fn = "main" THEN 3 ELSE 2) )
           => loadResult.value = {}

(***************************************************************************)
(* The page and the month-aware extraction loop (extract_ads).             *)
(* page[k] is the month strip at DOM position div[k + 1]; a strip exposes  *)
(* its cards under div[4]/div[1] (the newest month) or div[3]/div[1] (the  *)
(* older months); present is the set of card positions now in the DOM.     *)
(* A prefix is the pair <<m, inner>> of the XPath MONTH_BASE/div[m]/       *)
(* div[inner]/div[1].                                                      *)
(***************************************************************************)
GAP_LIMIT == 5
MAX_DEAD  == 2

MaxPos    == 3      \* card positions of a strip
MaxCards  == 3      \* cards the page comes to hold, over all its strips
MaxLimit  == 2      \* largest limit given to extract_ads (0 is None)

Max(a, b) == IF a >= b THEN a ELSE b

\* driver.find_element("xpath", f"{prefix}/div[{i}]/div") finds an element
Exists(pg, prefix, i) ==
    LET k == prefix[1] - 1
    IN  /\ k \in 1..Len(pg)
        /\ pg[k].shape = prefix[2]
        /\ i \in pg[k].present

\* the card an XPath names
CardAt(pg, prefix, i) == <<pg[prefix[1] - 1].id, i>>

\* _discover_month_prefixes, the while loop from month position m on
RECURSIVE DiscoverFrom(_, _)
DiscoverFrom(pg, m) ==
    LET found == IF Exists(pg, <<m, 4>>, 1) THEN 4
                 ELSE IF Exists(pg, <<m, 3>>, 1) THEN 3
                 ELSE 0
    IN  IF found = 0 THEN <<>>
        ELSE <<<<m, found>>>> \o DiscoverFrom(pg, m + 1)

_discover_month_prefixes(pg) == DiscoverFrom(pg, 2)

\* _count_cards_in_prefix, the while loop with its three counters
RECURSIVE CountLoop(_, _, _, _, _, _)
CountLoop(pg, prefix, gap, total, misses, i) ==
    IF ~(misses < gap) THEN total
    ELSE IF Exists(pg, prefix, i + 1)
         THEN CountLoop(pg, prefix, gap, total + 1, 0, i + 1)
         ELSE CountLoop(pg, prefix, gap, total, misses + 1, i + 1)

_count_cards_in_prefix(pg, prefix, gap) == CountLoop(pg, prefix, gap, 0, 0, 0)

\* sum(_count_cards_in_prefix(p, sb) for p in prefixes)
RECURSIVE SumCounts(_, _, _)
SumCounts(pg, pf, k) ==
    IF k > Len(pf) THEN 0
    ELSE _count_cards_in_prefix(pg, pf[k], GAP_LIMIT) + SumCounts(pg, pf, k + 1)

\* line 818: how many cards of this strip were parsed before
Already(seen, cum) == Max(0, seen - cum)

\* line 833: seen_cards = total_now
SeenCountsParsed(total, seen, parsed) == seen + parsed
SeenAfterRound(total, seen, parsed) == total

\* line 839: the idle rounds that end the loop
IdleReturnLate(dead) == dead > MAX_DEAD
IdleReturn(dead) == dead >= MAX_DEAD

\* lines 825-831: where control is after the try block raised; except
\* Exception catches and the for loop goes on
Propagates(at) == "raised"
ExceptBranch(at) == at

\* lines 804-809 and 837-841: discover, total, and the branch on growth; an
\* idle round counts a dead scroll and returns after MAX_DEAD of them
Probe ==
    /\ epc = "probe"
    /\ LET pf  == _discover_month_prefixes(page)
           tot == SumCounts(page, pf, 1)
       IN  IF tot > seen_cards
           THEN /\ prefixes' = pf
                /\ total_now' = tot
                /\ epc' = "recount"
                /\ pidx' = 1
                /\ UNCHANGED dead_scrolls
           ELSE /\ dead_scrolls' = dead_scrolls + 1
                /\ epc' = IF IdleReturn(dead_scrolls') THEN "returned" ELSE "probe"
                /\ UNCHANGED <<prefixes, total_now, pidx>>
    /\ parsed_this_round' = 0
    /\ cumulative' = 0
    /\ roundCalls' = 0
    /\ idleStreak' = IF SumCounts(page, _discover_month_prefixes(page), 1) > seen_cards
                     THEN 0 ELSE idleStreak + 1
    /\ UNCHANGED <<orchVars, apiVars, loadVars, pureVars, pageVars, limit, seen_cards, ads, n_cards,
                   already, cidx, visits, reparsed, skipped, raced>>

\* lines 815-819: the strip is counted again, already and cumulative follow
Recount ==
    /\ epc = "recount"
    /\ n_cards' = _count_cards_in_prefix(page, prefixes[pidx], GAP_LIMIT)
    /\ already' = Already(seen_cards, cumulative)
    /\ cumulative' = cumulative + n_cards'
    /\ cidx' = already' + 1
    /\ epc' = "parse"
    /\ UNCHANGED <<orchVars, apiVars, loadVars, pureVars, pageVars, limit, prefixes, total_now,
                   seen_cards, dead_scrolls, ads, parsed_this_round, pidx, histVars>>

InRange == epc = "parse" /\ cidx <= n_cards
AtLimit == limit # 0 /\ Len(ads) >= limit

\* lines 822-824: the limit is reached
HitLimit ==
    /\ InRange /\ AtLimit
    /\ epc' = "returned"
    /\ UNCHANGED <<orchVars, apiVars, loadVars, pureVars, pageVars, limit, prefixes, total_now,
                   seen_cards, dead_scrolls, ads, parsed_this_round, cumulative,
                   pidx, n_cards, already, cidx, histVars>>

\* lines 825-829: the card is found and parsed
ParseOk ==
    /\ InRange /\ ~AtLimit
    /\ Exists(page, prefixes[pidx], cidx)
    /\ LET card == CardAt(page, prefixes[pidx], cidx)
       IN  /\ ads' = Append(ads, card)
           /\ visits' = visits \cup {card}
           /\ reparsed' = (reparsed \/ card \in visits)
    /\ parsed_this_round' = parsed_this_round + 1
    /\ roundCalls' = roundCalls + 1
    /\ cidx' = cidx + 1
    /\ UNCHANGED <<orchVars, apiVars, loadVars, pureVars, pageVars, epc, limit, prefixes, total_now,
                   seen_cards, dead_scrolls, cumulative, pidx, n_cards, already,
                   skipped, raced, idleStreak>>

\* lines 826-831: the card is found, _parse_card raises, the card is skipped
ParseRaises ==
    /\ InRange /\ ~AtLimit
    /\ Exists(page, prefixes[pidx], cidx)
    /\ LET card == CardAt(page, prefixes[pidx], cidx)
       IN  /\ visits' = visits \cup {card}
           /\ reparsed' = (reparsed \/ card \in visits)
    /\ skipped' = skipped + 1
    /\ roundCalls' = roundCalls + 1
    /\ cidx' = cidx + 1
    /\ epc' = ExceptBranch(epc)
    /\ UNCHANGED <<orchVars, apiVars, loadVars, pureVars, pageVars, limit, prefixes, total_now,
                   seen_cards, dead_scrolls, ads, parsed_this_round, cumulative,
                   pidx, n_cards, already, raced, idleStreak>>

\* lines 826 and 830-831: find_element raises NoSuchElementException, which
\* the same handler catches
CardMissing ==
    /\ InRange /\ ~AtLimit
    /\ ~Exists(page, prefixes[pidx], cidx)
    /\ skipped' = skipped + 1
    /\ cidx' = cidx + 1
    /\ epc' = ExceptBranch(epc)
    /\ UNCHANGED <<orchVars, apiVars, loadVars, pureVars, pageVars, limit, prefixes, total_now,
                   seen_cards, dead_scrolls, ads, parsed_this_round, cumulative,
                   pidx, n_cards, already, visits, reparsed, roundCalls, raced,
                   idleStreak>>

\* line 815: the next strip
NextPrefix ==
    /\ epc = "parse" /\ cidx > n_cards
    /\ pidx < Len(prefixes)
    /\ pidx' = pidx + 1
    /\ epc' = "recount"
    /\ UNCHANGED <<orchVars, apiVars, loadVars, pureVars, pageVars, limit, prefixes, total_now,
                   seen_cards, dead_scrolls, ads, parsed_this_round, cumulative,
                   n_cards, already, cidx, histVars>>

\* lines 833-845: the round ends, scroll and sleep; the locals of the round
\* are dead from here on and are reset
EndRound ==
    /\ epc = "parse" /\ cidx > n_cards
    /\ pidx = Len(prefixes)
    /\ seen_cards' = SeenAfterRound(total_now, seen_cards, parsed_this_round)
    /\ dead_scrolls' = 0
    /\ epc' = "probe"
    /\ roundCalls' = 0
    /\ prefixes' = <<>> /\ total_now' = 0 /\ parsed_this_round' = 0
    /\ cumulative' = 0 /\ pidx' = 0 /\ n_cards' = 0 /\ already' = 0 /\ cidx' = 0
    /\ UNCHANGED <<orchVars, apiVars, loadVars, pureVars, pageVars, limit, ads,
                   visits, reparsed, skipped, raced, idleStreak>>

(***************************************************************************)
(* The browser renders while extract_ads runs: a strip gains a card, a new *)
(* older strip appears after the last, a new newest strip appears ahead of *)
(* the first (the former newest then has the older months' shape).         *)
(***************************************************************************)
Strip(id, shape, present) == [id |-> id, shape |-> shape, present |-> present]

RECURSIVE CardsOn(_, _)
CardsOn(pg, k) ==
    IF k > Len(pg) THEN 0 ELSE Cardinality(pg[k].present) + CardsOn(pg, k + 1)

\* a missing position below a present one
HasHole(pg) ==
    \E k \in 1..Len(pg) : \E p \in pg[k].present : \E q \in 1..(p - 1) : q \notin pg[k].present

\* the page changes unseen until extract_ads reads it again: the renders are
\* taken right before a step that reads the page
Rendering ==
    /\ CardsOn(page, 1) < MaxCards
    /\ epc \in {"probe", "recount"} \/ (InRange /\ ~AtLimit)
MidRound == epc \in {"recount", "parse"}

\* a strip gains a card, at any position it does not hold yet
RenderCard ==
    /\ Rendering
    /\ \E k \in 1..Len(page) : \E p \in (1..MaxPos) \ page[k].present :
          page' = [page EXCEPT ![k].present = @ \cup {p}]
    /\ raced' = (raced \/ MidRound)
    /\ UNCHANGED <<orchVars, apiVars, loadVars, pureVars, nextId, extVars, visits, reparsed, skipped,
                   roundCalls, idleStreak>>

\* an older month appears after the last strip, with its first card
RenderOlderStrip ==
    /\ Rendering
    /\ page' = Append(page, Strip(nextId, IF page = <<>> THEN 4 ELSE 3, {1}))
    /\ nextId' = nextId + 1
    /\ raced' = (raced \/ MidRound)
    /\ UNCHANGED <<orchVars, apiVars, loadVars, pureVars, extVars, visits, reparsed, skipped,
                   roundCalls, idleStreak>>

\* a newer month appears ahead of the first strip, with its first card
RenderNewerStrip ==
    /\ Rendering
    /\ page # <<>>
    /\ page' = <<Strip(nextId, 4, {1})>> \o [page EXCEPT ![1].shape = 3]
    /\ nextId' = nextId + 1
    /\ raced' = (raced \/ MidRound)
    /\ UNCHANGED <<orchVars, apiVars, loadVars, pureVars, extVars, visits, reparsed, skipped,
                   roundCalls, idleStreak>>

InitExtract ==
    /\ pairs = <<>> /\ ADVERTISERS = <<>> /\ CONTINUATION = FALSE /\ APPEND = TRUE
    /\ ckptFile = Missing /\ outFiles = NoFiles /\ backupFiles = NoFiles
    /\ pc = "idle" /\ run = 0 /\ done_pairs = {} /\ idx = 1
    /\ pair_object = Null /\ OUTPUT_FILE = 0
    /\ runExtracted = <<>> /\ runAppended = <<>> /\ prevExtracted = {}
    /\ storedAtStart = {} /\ ckptStored = {} /\ lastSaved = {} /\ written = {}
    /\ killedIn = ""
    /\ NoLoad /\ NoPure
    /\ page = <<>> /\ nextId = 1
    /\ epc = "probe" /\ limit \in 0..MaxLimit
    /\ prefixes = <<>> /\ total_now = 0
    /\ seen_cards = 0 /\ dead_scrolls = 0 /\ ads = <<>>
    /\ parsed_this_round = 0 /\ cumulative = 0 /\ pidx = 0
    /\ n_cards = 0 /\ already = 0 /\ cidx = 0
    /\ visits = {} /\ reparsed = FALSE /\ skipped = 0
    /\ roundCalls = 0 /\ raced = FALSE /\ idleStreak = 0

NextExtract ==
    \/ Probe
    \/ Recount
    \/ HitLimit
    \/ ParseOk
    \/ ParseRaises
    \/ CardMissing
    \/ NextPrefix
    \/ EndRound
    \/ RenderCard
    \/ RenderOlderStrip
    \/ RenderNewerStrip

SpecExtract == InitExtract /\ [][NextExtract]_vars

(***************************************************************************)
(* _count_cards_in_prefix applied to one strip: the positions present in   *)
(* the DOM and the gap are drawn, CountCall is the call.                   *)
(***************************************************************************)
MaxIdx == 8         \* highest card position of the strip

\* the strip as the page _count_cards_in_prefix reads, and its prefix
CountPage(present) == <<Strip(1, 4, present)>>
CountPrefix == <<2, 4>>

CountCall ==
    /\ cnt_total = -1
    /\ cnt_total' = _count_cards_in_prefix(CountPage(cnt_present), CountPrefix, cnt_gap)
    /\ UNCHANGED <<orchVars, apiVars, loadVars, scrapeVars, filterVars, cnt_present, cnt_gap>>

InitCount ==
    /\ pairs = <<>> /\ ADVERTISERS = <<>> /\ CONTINUATION = FALSE /\ APPEND = TRUE
    /\ ckptFile = Missing /\ outFiles = NoFiles /\ backupFiles = NoFiles
    /\ pc = "idle" /\ run = 0 /\ done_pairs = {} /\ idx = 1
    /\ pair_object = Null /\ OUTPUT_FILE = 0
    /\ runExtracted = <<>> /\ runAppended = <<>> /\ prevExtracted = {}
    /\ storedAtStart = {} /\ ckptStored = {} /\ lastSaved = {} /\ written = {}
    /\ killedIn = ""
    /\ NoLoad /\ NoScrape /\ NoFilter /\ NoApi
    /\ cnt_present \in SUBSET (1..MaxIdx)
    /\ cnt_gap \in 1..GAP_LIMIT
    /\ cnt_total = -1

NextCount == CountCall

SpecCount == InitCount /\ [][NextCount]_vars

(***************************************************************************)
(* Claims about extract_ads.                                               *)
(***************************************************************************)
\* the for loops of a round are over: every position of its ranges was tried
RoundDone == epc = "parse" /\ cidx > n_cards /\ pidx = Len(prefixes)

\* the top of the while loop of extract_ads, before the first probe and after
\* every round, idle or not
RoundBoundary == epc = "probe"

\* C8: delta-only extraction: for a page whose card count only grows from
\* probe to probe (no missing position, no change while a round runs), each
\* round hands to _parse_card exactly as many cards as the count grew since
\* the previous round, and no card handed to it in an earlier round is handed
\* to it again.
C8_DeltaOnly ==
    (RoundDone /\ ~raced /\ ~HasHole(page)) =>
        /\ roundCalls = total_now - seen_cards
        /\ ~reparsed

\* C9: no re-parsing across groups: during one extract_ads call no
\* (group, position) is handed to _parse_card more than once, while strips
\* only grow and new strips appear ahead of the newest or after the oldest
\* (the page holding still while a round runs).
C9_NoReparse == ~raced => ~reparsed

LastPresent(S) == IF S = {} THEN 0 ELSE CHOOSE p \in S : \A q \in S : q <= p

\* the consecutive missing positions right below the present position p
MissRunBefore(S, p) ==
    LET below == {q \in S \cup {0} : q < p}
    IN  p - 1 - (CHOOSE q \in below : \A r \in below : r <= q)

\* C11: gap-tolerant count value: _count_cards_in_prefix returns the index of
\* the last present position whenever every run of consecutive missing
\* positions before it is shorter than gap (positions 1-3 and 5-8 present,
\* gap 5: the result is 8).
C11_CountIsLastIndex ==
    (cnt_total # -1 /\ \A p \in cnt_present : MissRunBefore(cnt_present, p) < cnt_gap)
        => cnt_total = LastPresent(cnt_present)

\* C12: gap tolerance bound: a run of up to gap consecutive missing positions
\* followed by present positions does not end the count, so every present
\* position behind runs of at most gap misses is counted.
C12_ToleratesGapMisses ==
    (cnt_total # -1 /\ \A p \in cnt_present : MissRunBefore(cnt_present, p) <= cnt_gap)
        => cnt_total >= Cardinality(cnt_present)

(***************************************************************************)
(* Claims about how extract_ads ends and what it skips.                    *)
(***************************************************************************)
\* the cards now in the DOM
AllCards(pg) == UNION {{<<pg[k].id, p>> : p \in pg[k].present} : k \in 1..Len(pg)}

\* the cards handed to _parse_card that never gave an Item
Unparseable == visits \ Range(ads)

\* C13: idle termination: extract_ads returns as soon as MAX_DEAD (2)
\* consecutive probes show no growth and probes no further after them; the
\* idle counter is 0 again after every probe that found growth; apart from
\* reaching limit this is the only way the loop returns.
C13_IdleTermination ==
    /\ epc # "returned" => idleStreak < MAX_DEAD
    /\ epc = "returned" => (idleStreak = MAX_DEAD \/ AtLimit)
    /\ epc = "returned" => ~ENABLED Probe
    /\ RoundBoundary => dead_scrolls = idleStreak

\* extract_ads has returned after two idle probes that followed a round with
\* growth, the limit not being what ended it
C13_Witness ==
    /\ epc = "returned" /\ ~AtLimit
    /\ idleStreak = MAX_DEAD /\ dead_scrolls = MAX_DEAD
    /\ seen_cards > 0 /\ Len(ads) > 0

\* C14: limit bound: for every limit the returned list never holds more than
\* limit Items, and it holds exactly limit Items whenever the page revealed
\* at least limit parseable cards (the page holding still while a round runs).
C14_LimitBound ==
    limit # 0 =>
        /\ Len(ads) <= limit
        /\ (epc = "returned" /\ ~raced
              /\ Cardinality(AllCards(page) \ Unparseable) >= limit)
           => Len(ads) = limit

\* C15: no probing past the limit: once the Items collected have reached
\* limit, extract_ads takes no further count of a strip, no scroll and no
\* discover/total probe before it returns.
C15_NoProbePastLimit == [][AtLimit => ~(Probe \/ Recount \/ EndRound)]_vars

\* C16: parse-failure isolation: when finding or parsing a card raises, the
\* exception does not leave extract_ads, the card gives no Item, and the
\* round still hands every remaining card of its delta to _parse_card (for a
\* page without missing positions that holds still while the round runs).
C16_ParseFailureIsolation ==
    /\ epc # "raised"
    /\ Len(ads) + skipped >= Cardinality(visits)
    /\ (RoundDone /\ ~raced /\ ~HasHole(page)) => roundCalls = total_now - seen_cards

\* a finished round of three cards in which a parse raised and the last card
\* of the round, tried after it, gave an Item
C16_Witness ==
    /\ RoundDone /\ ~raced /\ ~HasHole(page)
    /\ roundCalls > parsed_this_round /\ parsed_this_round > 0
    /\ roundCalls = total_now - seen_cards
    /\ ads[Len(ads)] = CardAt(page, prefixes[pidx], n_cards)

(***************************************************************************)
(* The URL-engineering layer.  A URL is modelled by its query, the         *)
(* sequence of its raw key=value parameters as they stand in the string;   *)
(* scheme, host, path and fragment pass through urlparse / urlunparse      *)
(* untouched.  parse_qs gives the ordered dict of the decoded keys, each   *)
(* with the list of its decoded values; urlencode(doseq, quote_via=quote)  *)
(* writes one parameter per value, percent-encoded.                        *)
(***************************************************************************)
MaxParams == 2      \* parameters in the query of the base URL

\* urllib.parse.unquote_plus as parse_qs applies it to keys and values
Unquote(raw) ==
    CASE raw = "a+b" -> "a b"
      [] raw = "a%20b" -> "a b"
      [] raw = "content_languages%5B0%5D" -> "content_languages[0]"
      [] raw = "content_languages%5B1%5D" -> "content_languages[1]"
      [] raw = "publisher_platforms%5B0%5D" -> "publisher_platforms[0]"
      [] raw = "publisher_platforms%5B1%5D" -> "publisher_platforms[1]"
      [] raw = "start_date%5Bmin%5D" -> "start_date[min]"
      [] raw = "start_date%5Bmax%5D" -> "start_date[max]"
      [] OTHER -> raw

\* urllib.parse.quote as urlencode applies it to keys and values
Quote(text) ==
    CASE text = "a b" -> "a%20b"
      [] text = "content_languages[0]" -> "content_languages%5B0%5D"
      [] text = "content_languages[1]" -> "content_languages%5B1%5D"
      [] text = "publisher_platforms[0]" -> "publisher_platforms%5B0%5D"
      [] text = "publisher_platforms[1]" -> "publisher_platforms%5B1%5D"
      [] text = "start_date[min]" -> "start_date%5Bmin%5D"
      [] text = "start_date[max]" -> "start_date%5Bmax%5D"
      [] OTHER -> text

HasKey(q, k) == \E i \in 1..Len(q) : q[i].k = k

\* q[k] = vs on a dict: in place when the key is there, at the end otherwise
Put(q, k, vs) ==
    IF HasKey(q, k)
    THEN [i \in 1..Len(q) |-> IF q[i].k = k THEN [k |-> k, vs |-> vs] ELSE q[i]]
    ELSE Append(q, [k |-> k, vs |-> vs])

\* parse_qs(pr.query, keep_blank_values=True)
RECURSIVE ParseFrom(_, _, _)
ParseFrom(query, i, q) ==
    IF i > Len(query) THEN q
    ELSE LET k == Unquote(query[i][1])
             v == Unquote(query[i][2])
             old == IF HasKey(q, k)
                    THEN (CHOOSE j \in 1..Len(q) : q[j].k = k)
                    ELSE 0
         IN  ParseFrom(query, i + 1,
                       IF old = 0 THEN Put(q, k, <<v>>)
                       ELSE Put(q, k, Append(q[old].vs, v)))

parse_qs(query) == ParseFrom(query, 1, <<>>)

\* urlencode(q, doseq=True, quote_via=quote)
RECURSIVE urlencode(_)
urlencode(q) ==
    IF q = <<>> THEN <<>>
    ELSE [i \in 1..Len(q[1].vs) |-> <<Quote(q[1].k), Quote(q[1].vs[i])>>]
         \o urlencode(Tail(q))

\* k.startswith(prefix) over the keys of the model
StartsWith(k, prefix) ==
    \/ prefix = "content_languages["
         /\ k \in {"content_languages[0]", "content_languages[1]"}
    \/ prefix = "publisher_platforms["
         /\ k \in {"publisher_platforms[0]", "publisher_platforms[1]"}

\* f"{prefix}{idx}]"
IndexedKey(prefix, n) ==
    CASE prefix = "content_languages[" /\ n = 0 -> "content_languages[0]"
      [] prefix = "content_languages[" /\ n = 1 -> "content_languages[1]"
      [] prefix = "publisher_platforms[" /\ n = 0 -> "publisher_platforms[0]"
      [] prefix = "publisher_platforms[" /\ n = 1 -> "publisher_platforms[1]"

\* lines 331 and 340: {k: v for k, v in q.items() if not k.startswith(prefix)}
KeepPrefix(q, prefix) == q
WithoutPrefix(q, prefix) ==
    LET Stays(e) == ~StartsWith(e.k, prefix)
    IN  SelectSeq(q, Stays)

\* q.pop(k, None)
Pop(q, k) ==
    LET Stays(e) == e.k # k
    IN  SelectSeq(q, Stays)

\* the for loops of lines 333-337 and 345-346
RECURSIVE PutIndexed(_, _, _, _)
PutIndexed(q, prefix, items, i) ==
    IF i > Len(items) THEN q
    ELSE PutIndexed(Put(q, IndexedKey(prefix, i - 1), <<items[i]>>), prefix, items, i + 1)

PLATFORM_SET == {"facebook", "instagram", "audience_network", "messenger", "threads"}
MEDIA_TYPE_SET == {"all", "image", "video", "meme", "image_and_meme", "none"}
LANG_MAP == [n \in {"english", "french", "thai"} |->
                CASE n = "english" -> "en" [] n = "french" -> "fr" [] n = "thai" -> "th"]
AD_CATEGORY_MAP == [n \in {"all", "all_ads", "properties", "employment"} |->
                CASE n = "all" -> "all" [] n = "all_ads" -> "all"
                  [] n = "properties" -> "housing_ads" [] n = "employment" -> "employment_ads"]

\* slugify, over the names of the model
slugify(text) ==
    CASE text = "English" -> "english"
      [] text = "Klingon" -> "klingon"
      [] OTHER -> text

\* re.fullmatch(r"[a-z]{2}", name.strip(), flags=re.I)
TwoLetters(name) == name \in {"en", "fr", "th", "zz"}

\* lang_to_code; "" is None
lang_to_code(name_or_code) ==
    IF TwoLetters(name_or_code) THEN name_or_code
    ELSE IF slugify(name_or_code) \in DOMAIN LANG_MAP
         THEN LANG_MAP[slugify(name_or_code)]
         ELSE ""

\* the result of a call: it raised ValueError, or the query of the URL returned
Raised == [raised |-> TRUE, query |-> <<>>]
Returned(query) == [raised |-> FALSE, query |-> query]

_apply_filters_to_url(query) ==
    LET q0  == parse_qs(query)
        q1  == IF STATUS \in {"active", "inactive", "all"}
               THEN Put(q0, "active_status", <<STATUS>>) ELSE q0
        slug == IF AD_CATEGORY # "" THEN slugify(AD_CATEGORY) ELSE ""
        ad_type_val == IF slug \in DOMAIN AD_CATEGORY_MAP THEN AD_CATEGORY_MAP[slug]
                       ELSE "all"
        q2  == Put(q1, "ad_type", <<ad_type_val>>)
        q3  == WithoutPrefix(q2, "content_languages[")
        codes == [i \in 1..Len(LANGUAGES) |-> lang_to_code(LANGUAGES[i])]
        q4  == PutIndexed(q3, "content_languages[", codes, 1)
        q5  == WithoutPrefix(q4, "publisher_platforms[")
        bad == Range(PLATFORMS) \ PLATFORM_SET
        q6  == PutIndexed(q5, "publisher_platforms[", PLATFORMS, 1)
        q7  == Put(q6, "media_type", <<MEDIA_TYPE>>)
        q8  == Pop(Pop(q7, "start_date[min]"), "start_date[max]")
        q9  == IF START_DATE # "" THEN Put(q8, "start_date[min]", <<START_DATE>>) ELSE q8
        q10 == IF END_DATE # "" THEN Put(q9, "start_date[max]", <<END_DATE>>) ELSE q9
    IN  IF \E i \in 1..Len(codes) : codes[i] = "" THEN Raised
        ELSE IF bad # {} THEN Raised
        ELSE IF MEDIA_TYPE \notin MEDIA_TYPE_SET THEN Raised
        ELSE Returned(urlencode(q10))

\* app.py, AdsScrapingRequest.validate_dates: one date at a time; "" is None
WellFormedDates == {"2024-01-01", "2024-02-01", "2024-03-01"}
validate_dates(v) ==
    IF v # "" /\ v # "string"
    THEN IF v \in WellFormedDates THEN Returned(v) ELSE Raised
    ELSE Returned("")

\* the dates a request may carry, and those that pass validate_dates
RequestDates == WellFormedDates \cup {"", "string", "2024-13-01"}
AcceptedDates == {validate_dates(v).query : v \in {d \in RequestDates : ~validate_dates(d).raised}}

\* main, lines 977-981: the filters are applied to the URL the browser is on
\* and the browser opens the result
FilterFirst ==
    /\ fpc = "start"
    /\ LET r == _apply_filters_to_url(current_url)
       IN  IF r.raised
           THEN fpc' = "raised" /\ UNCHANGED current_url
           ELSE fpc' = "once" /\ current_url' = r.query
    /\ UNCHANGED <<orchVars, apiVars, loadVars, scrapeVars, countVars, settingVars, base_url,
                   filtered_again>>

\* _apply_filters_to_url applied to its own result
FilterAgain ==
    /\ fpc = "once"
    /\ LET r == _apply_filters_to_url(current_url)
       IN  IF r.raised
           THEN fpc' = "raised" /\ UNCHANGED filtered_again
           ELSE fpc' = "twice" /\ filtered_again' = r.query
    /\ UNCHANGED <<orchVars, apiVars, loadVars, scrapeVars, countVars, settingVars, base_url,
                   current_url>>

\* the parameters a base URL may carry
BaseParams ==
    {<<"q", "x">>, <<"q", "a+b">>, <<"active_status", "inactive">>,
     <<"ad_type", "all">>, <<"media_type", "video">>,
     <<"content_languages[0]", "th">>, <<"content_languages%5B0%5D", "th">>,
     <<"publisher_platforms[0]", "instagram">>,
     <<"start_date[min]", "2024-01-01">>, <<"start_date[max]", "2024-03-01">>}

InitFilter ==
    /\ pairs = <<>> /\ ADVERTISERS = <<>> /\ CONTINUATION = FALSE /\ APPEND = TRUE
    /\ ckptFile = Missing /\ outFiles = NoFiles /\ backupFiles = NoFiles
    /\ pc = "idle" /\ run = 0 /\ done_pairs = {} /\ idx = 1
    /\ pair_object = Null /\ OUTPUT_FILE = 0
    /\ runExtracted = <<>> /\ runAppended = <<>> /\ prevExtracted = {}
    /\ storedAtStart = {} /\ ckptStored = {} /\ lastSaved = {} /\ written = {}
    /\ killedIn = ""
    /\ NoLoad /\ NoScrape /\ NoCount /\ NoApi
    /\ STATUS \in {"active", "every"}
    /\ AD_CATEGORY \in {"all", "properties"}
    /\ LANGUAGES \in {<<>>, <<"English">>, <<"zz">>, <<"Klingon">>}
    /\ PLATFORMS \in {<<>>, <<"facebook">>, <<"myspace">>}
    /\ MEDIA_TYPE \in {"all", "gif"}
    /\ START_DATE \in AcceptedDates \ {"2024-01-01", "2024-03-01"}
    /\ END_DATE \in AcceptedDates \ {"2024-02-01"}
    /\ base_url \in SeqsUpTo(BaseParams, MaxParams)
    /\ current_url = base_url
    /\ filtered_again = <<>>
    /\ fpc = "start"

NextFilter == FilterFirst \/ FilterAgain

SpecFilter == InitFilter /\ [][NextFilter]_vars

(***************************************************************************)
(* Claims about _apply_filters_to_url.                                     *)
(***************************************************************************)
LangKeys == {"content_languages[0]", "content_languages[1]"}
PlatKeys == {"publisher_platforms[0]", "publisher_platforms[1]"}
FilterKeys == LangKeys \cup PlatKeys \cup
              {"active_status", "ad_type", "media_type", "start_date[min]", "start_date[max]"}

\* the parameters of a query whose decoded key is in keys, in their order
ParamsOf(query, keys) ==
    LET Within(e) == e.k \in keys
    IN  SelectSeq(parse_qs(query), Within)

AllKeysOf(query) == {parse_qs(query)[i].k : i \in 1..Len(parse_qs(query))}

\* the day a date names, for comparing two dates
DateRank(d) ==
    CASE d = "2024-01-01" -> 1 [] d = "2024-02-01" -> 2 [] d = "2024-03-01" -> 3

\* a language LANG_MAP knows by name or by code
KnownLanguage(name) ==
    \/ slugify(name) \in DOMAIN LANG_MAP
    \/ name \in {LANG_MAP[n] : n \in DOMAIN LANG_MAP}

\* C17: filter compile idempotence: _apply_filters_to_url applied to its own
\* result gives that result again, byte for byte, for every base URL and
\* every valid filter setting.
C17_CompileIdempotent == fpc = "twice" => filtered_again = current_url

\* C18: date-range validation: when START_DATE and END_DATE are both set and
\* END_DATE is earlier than START_DATE, compiling the filters fails instead
\* of producing a target.
C18_DateRangeValidated ==
    (START_DATE # "" /\ END_DATE # "" /\ DateRank(END_DATE) < DateRank(START_DATE))
        => fpc \notin {"once", "twice"}

\* C19: unknown filter values: with a language LANG_MAP has no code for, a
\* platform outside PLATFORM_SET or a media type outside MEDIA_TYPE_SET,
\* _apply_filters_to_url raises, and the URL the browser is on is left as it
\* was.
C19_UnknownValuesRaise ==
    ( /\ fpc # "start"
      /\ \/ \E i \in 1..Len(LANGUAGES) : ~KnownLanguage(LANGUAGES[i])
         \/ ~(Range(PLATFORMS) \subseteq PLATFORM_SET)
         \/ MEDIA_TYPE \notin MEDIA_TYPE_SET )
        => (fpc = "raised" /\ current_url = base_url)

C22_TaskLocalFailure ==
    [][ExtractFails => (pc' = "loop" /\ idx' = idx + 1 /\ ckptFile' = ckptFile)]_vars

\* one call of save_data_immediately, as main sees it
SaveReturned == pc = "extracted" /\ pc' = "saved"
SaveRaised   == pc = "extracted" /\ pc' = "aborted"
PrimaryWritten ==
    LET n == next_output_path
    IN  outFiles'[n] = File(List(Append(ReadExisting(outFiles[n]), pair_object)))
BackupWritten ==
    backupFiles'[next_output_path] = File(List(<<pair_object>>))

\* C23: result sink fallback: a call of save_data_immediately that returns
\* has written the primary collection or, when that write failed, the record
\* alone to the backup file; the call raises only when neither the primary
\* nor the backup write succeeded.
C23_SinkFallback ==
    [][ /\ SaveReturned =>
              IF PrimaryWritten THEN backupFiles' = backupFiles ELSE BackupWritten
        /\ SaveRaised => (~PrimaryWritten /\ ~BackupWritten) ]_vars

\* the primary write failed, the record alone is in the backup file and main
\* went on to the checkpoint
C23_Witness ==
    /\ pc = "saved"
    /\ \E n \in 0..MaxFiles :
          /\ backupFiles[n] = File(List(<<pair_object>>))
          /\ pair_object \notin RecordsIn(outFiles[n])

IsPrefix(s, t) == Len(s) <= Len(t) /\ \A i \in 1..Len(s) : t[i] = s[i]

\* the Result Collection a file holds
Collection(f) == IF f.exists /\ f.json.t = "list" THEN f.json.items ELSE <<>>

\* C24: append-only Result Collection: over every call of
\* save_data_immediately the records a collection held are still there,
\* unchanged and in their order, in append mode and in numbered-file mode.
C24_AppendOnly ==
    [][(SaveReturned \/ SaveRaised) =>
          \A n \in 0..MaxFiles :
             IsPrefix(Collection(outFiles[n]), Collection(outFiles'[n]))]_vars

\* the output files that hold a record written by the current run
FilesOfRun == {n \in 0..MaxFiles : \E r \in RecordsIn(outFiles[n]) : r.run = run}

\* C25: one file per run, nothing overwritten: in numbered-file mode the
\* records a run writes are all in one file, and no step changes a file
\* that exists.
C25_OneFilePerRun ==
    [][~APPEND =>
          /\ \A n \in 0..MaxFiles : outFiles[n].exists => outFiles'[n] = outFiles[n]
          /\ Cardinality(FilesOfRun') <= 1]_vars

\* C26: continuation of the advertiser scraper: in a run started with
\* CONTINUATION enabled no pair the checkpoint file listed at the start is
\* scraped.
C26_AdvContinuation ==
    (CONTINUATION /\ run >= 1) => Range(runExtracted) \cap storedAtStart = {}

(***************************************************************************)
(* app.py: rate_limit_check(client_ip, limit, window) over the module's    *)
(* request_tracker.  The clock is time.time() in whole seconds; several    *)
(* calls can fall into the same second.                                    *)
(***************************************************************************)
MaxTime == 3
Clients == {"10.0.0.1", "10.0.0.2"}
RateLimits == {0, 1, 2}
RateWindows == {1, 2}

\* line 386: the request at req_time is kept
KeptInclusive(now, req_time, window) == now - req_time <= window
Kept(now, req_time, window) == now - req_time < window

\* lines 380-387: the client's list, created when missing, without old requests
Cleaned(client_ip) ==
    LET reqs == IF client_ip \in DOMAIN request_tracker
                THEN request_tracker[client_ip] ELSE <<>>
        keep(t) == Kept(rl_now, t, rl_window)
    IN  SelectSeq(reqs, keep)

\* request_tracker[client_ip] = reqs
Assign(client_ip, reqs) ==
    [c \in DOMAIN request_tracker \cup {client_ip} |->
        IF c = client_ip THEN reqs ELSE request_tracker[c]]

\* the admitted requests of a client so far
AdmittedOf(c) == IF c \in DOMAIN admitted THEN admitted[c] ELSE <<>>

\* rate_limit_check(client_ip, rl_limit, rl_window)
rate_limit_check(client_ip) ==
    LET reqs == Cleaned(client_ip)
    IN  IF Len(reqs) >= rl_limit
        THEN /\ request_tracker' = Assign(client_ip, reqs)
             /\ rl_result' = [client |-> client_ip, value |-> FALSE]
             /\ admitted' = admitted
        ELSE /\ request_tracker' = Assign(client_ip, Append(reqs, rl_now))
             /\ rl_result' = [client |-> client_ip, value |-> TRUE]
             /\ admitted' = [c \in DOMAIN admitted \cup {client_ip} |->
                               IF c = client_ip THEN Append(AdmittedOf(c), rl_now)
                               ELSE admitted[c]]

\* a request of some client reaches the middleware
RateCall ==
    /\ \E client_ip \in Clients : rate_limit_check(client_ip)
    /\ UNCHANGED <<nonRateVars, rl_now, rl_limit, rl_window>>

\* a second passes
RateTick ==
    /\ rl_now < MaxTime
    /\ rl_now' = rl_now + 1
    /\ rl_result' = Null
    /\ UNCHANGED <<nonRateVars, request_tracker, rl_limit, rl_window, admitted>>

InitRate ==
    /\ rl_now = 0 /\ request_tracker = <<>> /\ rl_result = Null /\ admitted = <<>>
    /\ rl_limit \in RateLimits
    /\ rl_window \in RateWindows
    /\ pairs = <<>> /\ ADVERTISERS = <<>> /\ CONTINUATION = FALSE /\ APPEND = FALSE
    /\ ckptFile = Missing /\ outFiles = NoFiles /\ backupFiles = NoFiles
    /\ pc = "idle" /\ run = 0 /\ done_pairs = {} /\ idx = 1
    /\ pair_object = Null /\ OUTPUT_FILE = 0
    /\ runExtracted = <<>> /\ runAppended = <<>> /\ prevExtracted = {}
    /\ storedAtStart = {} /\ ckptStored = {} /\ lastSaved = {} /\ written = {}
    /\ killedIn = ""
    /\ NoLoad /\ NoScrape /\ NoCount /\ NoFilter /\ NoJobs /\ NoWriters /\ NoTask
    /\ NoLate

NextRate ==
    \/ RateCall
    \/ RateTick

SpecRate == InitRate /\ [][NextRate]_vars

\* the requests of client c admitted during the window seconds that end at t
AdmittedInWindow(c, t) ==
    {i \in 1..Len(AdmittedOf(c)) :
        AdmittedOf(c)[i] <= t /\ AdmittedOf(c)[i] > t - rl_window}

\* C28: sliding-window rate limit: rate_limit_check returns True exactly
\* when fewer than limit requests of the client were admitted during the
\* last window seconds, and then records the request; a False call records
\* nothing; in every window at most limit requests of a client are admitted;
\* the result depends on the client's own admitted requests only.
C28_SlidingWindow ==
    /\ rl_result # Null =>
          LET c == rl_result.client
              n == Cardinality(AdmittedInWindow(c, rl_now))
          IN  IF rl_result.value
              THEN /\ n - 1 < rl_limit
                   /\ AdmittedOf(c)[Len(AdmittedOf(c))] = rl_now
              ELSE n >= rl_limit
    /\ \A c \in DOMAIN request_tracker :
          \* the list holds admitted requests only, and every one of the window
          /\ \E k \in 0..Len(AdmittedOf(c)) :
                request_tracker[c] = SubSeq(AdmittedOf(c), k + 1, Len(AdmittedOf(c)))
          /\ Len(request_tracker[c]) >= Cardinality(AdmittedInWindow(c, rl_now))
    /\ \A c \in Clients : \A t \in 0..rl_now :
          Cardinality(AdmittedInWindow(c, t)) <= rl_limit

\* a client at its limit was refused while the other client, in the same
\* second, was admitted
C28_Witness ==
    /\ rl_result # Null /\ ~rl_result.value /\ rl_limit >= 1
    /\ \E d \in Clients \ {rl_result.client} :
          /\ AdmittedOf(d) # <<>>
          /\ AdmittedOf(d)[Len(AdmittedOf(d))] = rl_now
    /\ \E i \in 1..Len(AdmittedOf(rl_result.client)) :
          AdmittedOf(rl_result.client)[i] < rl_now

(***************************************************************************)
(* app.py: the background jobs.  run_ads_scraper and                       *)
(* run_advertiser_scraper run in the thread pool, one call per job_id, and *)
(* GET /jobs/{job_id} reads active_jobs between any two of their           *)
(* statements.                                                             *)
(***************************************************************************)
Jobs == {"job_1", "job_2"}
ReturnCodes == {0, 1}
StderrTexts == {"", "Traceback"}

\* stderr_text if stderr_text else "Process failed with no error output"
ErrorTextRaw(stderr_text) == stderr_text
ErrorText(stderr_text) ==
    IF stderr_text # "" THEN stderr_text ELSE "Process failed with no error output"

\* active_jobs[job_id]["status"] = status (the other keys stay), and the
\* first terminal status the job had
SetStatus(job_id, status, error) ==
    /\ active_jobs' = [active_jobs EXCEPT ![job_id] = [status |-> status, error |-> error]]
    /\ first_terminal' =
          IF first_terminal[job_id] = "" /\ status \in {"completed", "failed"}
          THEN [first_terminal EXCEPT ![job_id] = status]
          ELSE first_terminal

\* start_ads_scraping lines 890-903 and start_advertiser_scraping lines
\* 919-932: generate_job_id, add_task, and the response with job_id and status
\* "running"; the background task runs once the response is sent
start_ads_scraping(job_id) ==
    /\ job_id \notin handed_out
    /\ handed_out' = handed_out \cup {job_id}
    /\ UNCHANGED <<orchVars, loadVars, scrapeVars, pureVars, rateVars, writerVars, taskVars,
                   discVars, pagesVars, postsVars, budgetVars, jobVars>>

\* lines 484, 570: active_jobs[job_id] = {"status": "running", ...}
JobBegin(job_id) ==
    /\ job_id \in handed_out
    /\ jpc[job_id] = "new"
    /\ active_jobs' = [j \in DOMAIN active_jobs \cup {job_id} |->
                          IF j = job_id THEN [status |-> "running", error |-> <<>>]
                          ELSE active_jobs[j]]
    /\ jpc' = [jpc EXCEPT ![job_id] = "running"]
    /\ UNCHANGED <<nonJobVars, job_kind, process, job_seen, first_terminal>>

\* run_ads_scraper, lines 512-520 raise (the output is not UTF-8, the
\* interpreter cannot be started): lines 542-550 replace the entry; process
\* is None, the final check does nothing
AdsRunRaises(job_id) ==
    /\ job_kind[job_id] = "ads" /\ jpc[job_id] = "running"
    /\ active_jobs' = [active_jobs EXCEPT ![job_id] =
                          [status |-> "failed",
                           error |-> <<"Job failed with exception: exc">>]]
    /\ first_terminal' = [first_terminal EXCEPT ![job_id] = "failed"]
    /\ jpc' = [jpc EXCEPT ![job_id] = "returned"]
    /\ UNCHANGED <<nonJobVars, job_kind, process, job_seen>>

\* lines 512-523 and 610-621: subprocess.run returns
RunEnds(job_id) ==
    /\ jpc[job_id] = "running"
    /\ \E rc \in ReturnCodes, stderr_text \in StderrTexts :
          process' = [process EXCEPT ![job_id] =
                         <<[returncode |-> rc, stderr |-> stderr_text]>>]
    /\ jpc' = [jpc EXCEPT ![job_id] = "ran"]
    /\ UNCHANGED <<nonJobVars, active_jobs, job_kind, job_seen, first_terminal>>

\* run_ads_scraper, lines 533-540
AdsUpdate(job_id) ==
    /\ job_kind[job_id] = "ads" /\ jpc[job_id] = "ran"
    /\ IF process[job_id][1].returncode = 0
       THEN SetStatus(job_id, "completed", active_jobs[job_id].error)
       ELSE SetStatus(job_id, "failed", <<process[job_id][1].stderr>>)
    /\ jpc' = [jpc EXCEPT ![job_id] = "final"]
    /\ UNCHANGED <<nonJobVars, job_kind, process, job_seen>>

\* run_ads_scraper, lines 553-565: the final status check
AdsFinal(job_id) ==
    /\ job_kind[job_id] = "ads" /\ jpc[job_id] = "final"
    /\ IF process[job_id][1].returncode = 0
       THEN SetStatus(job_id, "completed", active_jobs[job_id].error)
       ELSE SetStatus(job_id, "failed", <<ErrorText(process[job_id][1].stderr)>>)
    /\ jpc' = [jpc EXCEPT ![job_id] = "returned"]
    /\ UNCHANGED <<nonJobVars, job_kind, process, job_seen>>

\* run_advertiser_scraper, lines 591-618 raise (the temporary config cannot
\* be written, subprocess.run raises): lines 652-660, error = str(e)
AdvJobRaises(job_id) ==
    /\ job_kind[job_id] = "advertiser" /\ jpc[job_id] = "running"
    /\ SetStatus(job_id, "failed", <<"exc">>)
    /\ jpc' = [jpc EXCEPT ![job_id] = "returned"]
    /\ UNCHANGED <<nonJobVars, job_kind, process, job_seen>>

\* run_advertiser_scraper, lines 637-651
AdvUpdate(job_id) ==
    /\ job_kind[job_id] = "advertiser" /\ jpc[job_id] = "ran"
    /\ IF process[job_id][1].returncode = 0
       THEN SetStatus(job_id, "completed", active_jobs[job_id].error)
       ELSE SetStatus(job_id, "failed", <<ErrorText(process[job_id][1].stderr)>>)
    /\ jpc' = [jpc EXCEPT ![job_id] = "returned"]
    /\ UNCHANGED <<nonJobVars, job_kind, process, job_seen>>

\* get_job_status(job_id), lines 1446-1459
get_job_status(job_id) ==
    /\ job_id \in handed_out
    /\ job_seen' = [job_seen EXCEPT ![job_id] =
                       IF job_id \notin DOMAIN active_jobs THEN "404"
                       ELSE active_jobs[job_id].status]
    /\ job_seen'[job_id] # job_seen[job_id]
    /\ UNCHANGED <<nonJobVars, active_jobs, job_kind, jpc, process, first_terminal>>

\* the state of the scrapers when only the API is looked at
IdleScrapers ==
    /\ pairs = <<>> /\ ADVERTISERS = <<>> /\ CONTINUATION = FALSE /\ APPEND = FALSE
    /\ ckptFile = Missing /\ outFiles = NoFiles /\ backupFiles = NoFiles
    /\ pc = "idle" /\ run = 0 /\ done_pairs = {} /\ idx = 1
    /\ pair_object = Null /\ OUTPUT_FILE = 0
    /\ runExtracted = <<>> /\ runAppended = <<>> /\ prevExtracted = {}
    /\ storedAtStart = {} /\ ckptStored = {} /\ lastSaved = {} /\ written = {}
    /\ killedIn = ""
    /\ NoLoad /\ NoScrape /\ NoCount /\ NoFilter

InitJobs ==
    /\ active_jobs = <<>>
    /\ job_kind \in [Jobs -> {"ads", "advertiser"}]
    /\ jpc = [j \in Jobs |-> "new"]
    /\ process = [j \in Jobs |-> <<>>]
    /\ job_seen = [j \in Jobs |-> ""]
    /\ first_terminal = [j \in Jobs |-> ""]
    /\ IdleScrapers /\ NoRate /\ NoWriters /\ NoTask /\ NoLate

NextJobs ==
    \/ \E job_id \in Jobs : start_ads_scraping(job_id)
    \/ \E job_id \in Jobs : JobBegin(job_id)
    \/ \E job_id \in Jobs : AdsRunRaises(job_id)
    \/ \E job_id \in Jobs : RunEnds(job_id)
    \/ \E job_id \in Jobs : AdsUpdate(job_id)
    \/ \E job_id \in Jobs : AdsFinal(job_id)
    \/ \E job_id \in Jobs : AdvJobRaises(job_id)
    \/ \E job_id \in Jobs : AdvUpdate(job_id)
    \/ \E job_id \in Jobs : get_job_status(job_id)

SpecJobs == InitJobs /\ [][NextJobs]_vars

\* C29: job lifecycle: the status of a job is one of running, completed,
\* failed; when its run_*_scraper function has returned it is completed or
\* failed, completed only if the process exited with code 0, and failed with
\* a non-empty error; a status that was terminal once is the status for good.
C29_JobLifecycle ==
    \A j \in Jobs :
       /\ j \in DOMAIN active_jobs =>
             /\ active_jobs[j].status \in {"running", "completed", "failed"}
             /\ active_jobs[j].status = "completed" =>
                   (process[j] # <<>> /\ process[j][1].returncode = 0)
             /\ first_terminal[j] # "" => active_jobs[j].status = first_terminal[j]
       /\ jpc[j] = "returned" =>
             /\ j \in DOMAIN active_jobs
             /\ active_jobs[j].status \in {"completed", "failed"}
             /\ active_jobs[j].status = "failed" =>
                   (active_jobs[j].error # <<>> /\ active_jobs[j].error[1] # "")

\* an ads job whose process failed without writing to stderr has returned
\* as failed, and an advertiser job has completed and GET /jobs has seen it
C29_Witness ==
    \E j, k \in Jobs :
       /\ job_kind[j] = "ads" /\ jpc[j] = "returned"
       /\ process[j] # <<>> /\ process[j][1].returncode = 1
       /\ process[j][1].stderr = ""
       /\ active_jobs[j].status = "failed"
       /\ job_kind[k] = "advertiser" /\ jpc[k] = "returned"
       /\ active_jobs[k].status = "completed"
       /\ job_seen[k] = "completed"

(***************************************************************************)
(* Two scraping jobs started through the API (app.py, start_ads_scraping   *)
(* twice): each background task runs its own scraper process, and both     *)
(* processes run main over the same output file (append mode) and the same *)
(* checkpoint file.  No lock is taken anywhere.                            *)
(***************************************************************************)
Writers == {1, 2}
Pair3 == <<Str("US"), Str("k1")>>
\* the target_pairs of the two requests
WriterPairs == <<(<<Pair1, Pair2>>), (<<Pair1, Pair3>>)>>
WriterKey(w) == <<WriterPairs[w][w_idx[w]][1], WriterPairs[w][w_idx[w]][2], Null>>

\* main, line 877: done_pairs = load_checkpoint()
WBegin(w) ==
    /\ wpc[w] = "new"
    /\ w_done' = [w_done EXCEPT ![w] = load_checkpoint(ckptFile, CONTINUATION).value]
    /\ wpc' = [wpc EXCEPT ![w] = "loop"]
    /\ UNCHANGED <<nonWriterVars, ckptFile, outFiles, w_idx, w_existing, w_appended,
                   w_marked>>

\* line 881: the TaskKey is in this process's done_pairs
WSkip(w) ==
    /\ wpc[w] = "loop" /\ w_idx[w] <= Len(WriterPairs[w])
    /\ WriterKey(w) \in w_done[w]
    /\ w_idx' = [w_idx EXCEPT ![w] = @ + 1]
    /\ UNCHANGED <<nonWriterVars, ckptFile, outFiles, wpc, w_done, w_existing,
                   w_appended, w_marked>>

\* the Task is extracted; save_data_immediately, lines 440-465: the whole
\* collection is read
WRead(w) ==
    /\ wpc[w] = "loop" /\ w_idx[w] <= Len(WriterPairs[w])
    /\ WriterKey(w) \notin w_done[w]
    /\ w_existing' = [w_existing EXCEPT ![w] = ReadExisting(outFiles[next_output_path])]
    /\ wpc' = [wpc EXCEPT ![w] = "read"]
    /\ UNCHANGED <<nonWriterVars, ckptFile, outFiles, w_idx, w_done, w_appended,
                   w_marked>>

\* save_data_immediately, lines 467-473: the record is appended to the list
\* in memory and the whole list is written
WWrite(w) ==
    /\ wpc[w] = "read"
    /\ outFiles' = [outFiles EXCEPT ![next_output_path] =
                       File(List(Append(w_existing[w], Record(WriterKey(w), w))))]
    /\ w_appended' = w_appended \cup {Record(WriterKey(w), w)}
    /\ wpc' = [wpc EXCEPT ![w] = "saved"]
    /\ UNCHANGED <<nonWriterVars, ckptFile, w_idx, w_done, w_existing, w_marked>>

\* lines 1040-1041: done_pairs.add(...); save_checkpoint(done_pairs) writes
\* the set this process holds
WMark(w) ==
    /\ wpc[w] = "saved"
    /\ w_done' = [w_done EXCEPT ![w] = AddDone(@, WriterKey(w))]
    /\ ckptFile' = save_checkpoint(w_done'[w])
    /\ w_marked' = w_marked \cup {WriterKey(w)}
    /\ w_idx' = [w_idx EXCEPT ![w] = @ + 1]
    /\ wpc' = [wpc EXCEPT ![w] = "loop"]
    /\ UNCHANGED <<nonWriterVars, outFiles, w_existing, w_appended>>

\* the for loop is exhausted
WFinish(w) ==
    /\ wpc[w] = "loop" /\ w_idx[w] > Len(WriterPairs[w])
    /\ wpc' = [wpc EXCEPT ![w] = "done"]
    /\ UNCHANGED <<nonWriterVars, ckptFile, outFiles, w_idx, w_done, w_existing,
                   w_appended, w_marked>>

InitWriters ==
    /\ wpc = [w \in Writers |-> "new"]
    /\ w_idx = [w \in Writers |-> 1]
    /\ w_done = [w \in Writers |-> {}]
    /\ w_existing = [w \in Writers |-> <<>>]
    /\ w_appended = {} /\ w_marked = {}
    /\ pairs = <<>> /\ ADVERTISERS = <<>>
    /\ CONTINUATION \in BOOLEAN
    /\ APPEND = TRUE
    /\ ckptFile = Missing /\ outFiles = NoFiles /\ backupFiles = NoFiles
    /\ pc = "idle" /\ run = 0 /\ done_pairs = {} /\ idx = 1
    /\ pair_object = Null /\ OUTPUT_FILE = 0
    /\ runExtracted = <<>> /\ runAppended = <<>> /\ prevExtracted = {}
    /\ storedAtStart = {} /\ ckptStored = {} /\ lastSaved = {} /\ written = {}
    /\ killedIn = ""
    /\ NoLoad /\ NoScrape /\ NoCount /\ NoFilter /\ NoRate /\ NoJobs /\ NoTask
    /\ NoLate

NextWriters ==
    \/ \E w \in Writers : WBegin(w)
    \/ \E w \in Writers : WSkip(w)
    \/ \E w \in Writers : WRead(w)
    \/ \E w \in Writers : WWrite(w)
    \/ \E w \in Writers : WMark(w)
    \/ \E w \in Writers : WFinish(w)

SpecWriters == InitWriters /\ [][NextWriters]_vars

\* C27: single-writer discipline: with two jobs running concurrently over
\* the same output file and the same checkpoint file, every record a job
\* has appended is in the output file and every TaskKey a job has
\* checkpointed is in the checkpoint file.
C27_NoLostUpdate ==
    /\ w_appended \subseteq RecordsIn(outFiles[next_output_path])
    /\ w_marked \subseteq load_checkpoint(ckptFile, TRUE).value

(***************************************************************************)
(* One run of main of ads_and_suggestions_scraper, Task by Task: the MODE, *)
(* the filter settings, the navigation and the extraction of each Task.    *)
(* Saving and checkpointing are the actions of SpecMain.                   *)
(***************************************************************************)
MaxSuggestions == 2
Modes == {"ads", "suggestions", "ads_and_suggestions"}

\* the filter settings of a run: valid, or with an unknown language, an
\* unknown platform, an unknown media type
FilterConfigs ==
    {[languages |-> <<>>,          platforms |-> <<>>,          media_type |-> "all"],
     [languages |-> <<"Klingon">>, platforms |-> <<>>,          media_type |-> "all"],
     [languages |-> <<>>,          platforms |-> <<"myspace">>, media_type |-> "all"],
     [languages |-> <<>>,          platforms |-> <<>>,          media_type |-> "gif"]}

\* _apply_filters_to_url(...) raises ValueError under the settings of the run
FiltersRaise == _apply_filters_to_url(base_url).raised

CurrentKey == TaskKey(Triples[idx])

\* main, lines 850-877: the checks of MODE and pairs, the browser opens
\* facebook.com and the Ad Library, the checkpoint is loaded
TaskStart ==
    /\ pc = "idle"
    /\ run' = run + 1
    /\ IF MODE \notin Modes \/ pairs = <<>>
       THEN /\ pc' = "aborted"             \* sys.exit
            /\ done_pairs' = {}
            /\ navigated' = FALSE
       ELSE /\ pc' = "loop"
            /\ done_pairs' = load_checkpoint(ckptFile, CONTINUATION).value
            /\ navigated' = TRUE
    /\ idx' = 1
    /\ pair_object' = Null
    /\ runExtracted' = <<>>
    /\ runAppended' = <<>>
    /\ prevExtracted' = prevExtracted \cup Range(runExtracted)
    /\ storedAtStart' = ckptStored
    /\ UNCHANGED <<cfgVars, fsVars, OUTPUT_FILE, ckptStored, lastSaved, written,
                   killedIn, nonTaskVars, MODE, SCRAPE_ADVERTISER_ADS, suggestions,
                   sidx, ads_from, interrupted>>

\* lines 885-932: the country is selected and the keyword typed
TaskNavigate ==
    /\ pc = "loop" /\ idx <= Len(Triples)
    /\ CurrentKey \notin done_pairs
    /\ pc' = "selected"
    /\ suggestions' = 0 /\ sidx' = 0 /\ ads_from' = {}
    /\ UNCHANGED <<cfgVars, fsVars, run, done_pairs, idx, pair_object, OUTPUT_FILE,
                   ghostVars, nonTaskVars, MODE, SCRAPE_ADVERTISER_ADS, navigated,
                   interrupted>>

\* lines 934-941, MODE "suggestions": extract_suggestions; without
\* SCRAPE_ADVERTISER_ADS the Task's pair_object is built (lines 1011-1036)
TaskSuggestions ==
    /\ pc = "selected" /\ MODE = "suggestions"
    /\ \E n \in 0..MaxSuggestions : suggestions' = n
    /\ IF SCRAPE_ADVERTISER_ADS
       THEN /\ pc' = "advertisers"
            /\ sidx' = 1
            /\ UNCHANGED <<pair_object, runExtracted>>
       ELSE /\ pc' = "extracted"
            /\ sidx' = 0
            /\ pair_object' = Record(CurrentKey, run)
            /\ runExtracted' = Append(runExtracted, CurrentKey)
    /\ UNCHANGED <<cfgVars, fsVars, run, done_pairs, idx, OUTPUT_FILE, runAppended,
                   prevExtracted, storedAtStart, ckptStored, lastSaved, written,
                   killedIn, nonTaskVars, MODE, SCRAPE_ADVERTISER_ADS, navigated,
                   ads_from, interrupted>>

\* lines 942-956: extract_advertiser_ads returns, its ads are added to ads
AdvertiserAds ==
    /\ pc = "advertisers" /\ sidx <= suggestions
    /\ ~FiltersRaise
    /\ ads_from' = ads_from \cup {sidx}
    /\ sidx' = sidx + 1
    /\ UNCHANGED <<orchVars, nonTaskVars, MODE, SCRAPE_ADVERTISER_ADS, navigated,
                   suggestions, interrupted>>

\* extract_advertiser_ads, line 273: _apply_filters_to_url raises; lines
\* 961-963 print the error and continue with the next suggestion
AdvertiserFilterRaises ==
    /\ pc = "advertisers" /\ sidx <= suggestions
    /\ FiltersRaise
    /\ sidx' = sidx + 1
    /\ UNCHANGED <<orchVars, nonTaskVars, MODE, SCRAPE_ADVERTISER_ADS, navigated,
                   suggestions, ads_from, interrupted>>

\* extract_advertiser_ads, lines 276-280: sb.open or extract_ads raises (at a
\* scroll, a count); lines 961-963 print the error and continue
AdvertiserExtractRaises ==
    /\ pc = "advertisers" /\ sidx <= suggestions
    /\ ~FiltersRaise
    /\ interrupted' = interrupted \cup {CurrentKey}
    /\ sidx' = sidx + 1
    /\ UNCHANGED <<orchVars, nonTaskVars, MODE, SCRAPE_ADVERTISER_ADS, navigated,
                   suggestions, ads_from>>

\* lines 965-971 and 1011-1036: the advertiser loop is over, pair_object is built
AdvertisersDone ==
    /\ pc = "advertisers" /\ sidx > suggestions
    /\ pc' = "extracted"
    /\ pair_object' = Record(CurrentKey, run)
    /\ runExtracted' = Append(runExtracted, CurrentKey)
    /\ UNCHANGED <<cfgVars, fsVars, run, done_pairs, idx, OUTPUT_FILE, runAppended,
                   prevExtracted, storedAtStart, ckptStored, lastSaved, written,
                   killedIn, nonTaskVars, taskVars>>

\* lines 973-981 and 992-1001, MODE "ads" and "ads_and_suggestions": (the
\* suggestions,) the search, then _apply_filters_to_url(current_url); its
\* ValueError leaves main
TaskFilter ==
    /\ pc = "selected" /\ MODE \in {"ads", "ads_and_suggestions"}
    /\ \E n \in (IF MODE = "ads" THEN {0} ELSE 0..MaxSuggestions) : suggestions' = n
    /\ pc' = IF FiltersRaise THEN "aborted" ELSE "filtered"
    /\ UNCHANGED <<cfgVars, fsVars, run, done_pairs, idx, pair_object, OUTPUT_FILE,
                   ghostVars, nonTaskVars, MODE, SCRAPE_ADVERTISER_ADS, navigated,
                   sidx, ads_from, interrupted>>

\* lines 984 and 1004: extract_ads returns; lines 1011-1036 build pair_object
TaskAds ==
    /\ pc = "filtered"
    /\ pc' = "extracted"
    /\ pair_object' = Record(CurrentKey, run)
    /\ runExtracted' = Append(runExtracted, CurrentKey)
    /\ UNCHANGED <<cfgVars, fsVars, run, done_pairs, idx, OUTPUT_FILE, runAppended,
                   prevExtracted, storedAtStart, ckptStored, lastSaved, written,
                   killedIn, nonTaskVars, taskVars>>

\* lines 984 and 1004: extract_ads raises (at a scroll, a count); main has no
\* handler, the exception ends the run
TaskAdsRaises ==
    /\ pc = "filtered"
    /\ pc' = "aborted"
    /\ interrupted' = interrupted \cup {CurrentKey}
    /\ UNCHANGED <<cfgVars, fsVars, run, done_pairs, idx, pair_object, OUTPUT_FILE,
                   ghostVars, nonTaskVars, MODE, SCRAPE_ADVERTISER_ADS, navigated,
                   suggestions, sidx, ads_from>>

\* the process is killed while a Task is extracted
TaskCrash ==
    /\ pc \in {"selected", "advertisers", "filtered"}
    /\ pc' = "dead"
    /\ killedIn' = "extraction"
    /\ interrupted' = interrupted \cup {CurrentKey}
    /\ UNCHANGED <<cfgVars, fsVars, run, done_pairs, idx, pair_object, OUTPUT_FILE,
                   runExtracted, runAppended, prevExtracted, storedAtStart, ckptStored,
                   lastSaved, written, nonTaskVars, MODE, SCRAPE_ADVERTISER_ADS,
                   navigated, suggestions, sidx, ads_from>>

InitTask ==
    /\ pairs \in PairLists
    /\ ADVERTISERS = <<>>
    /\ CONTINUATION = TRUE
    /\ APPEND \in BOOLEAN
    /\ ckptFile = Missing /\ outFiles = NoFiles /\ backupFiles = NoFiles
    /\ pc = "idle" /\ run = 0 /\ done_pairs = {} /\ idx = 1
    /\ pair_object = Null /\ OUTPUT_FILE = 0
    /\ runExtracted = <<>> /\ runAppended = <<>> /\ prevExtracted = {}
    /\ storedAtStart = {} /\ ckptStored = {} /\ lastSaved = {} /\ written = {}
    /\ killedIn = ""
    /\ MODE \in Modes \cup {"pages"}
    /\ SCRAPE_ADVERTISER_ADS \in BOOLEAN
    /\ navigated = FALSE /\ suggestions = 0 /\ sidx = 0 /\ ads_from = {}
    /\ interrupted = {}
    /\ \E f \in FilterConfigs :
          /\ LANGUAGES = f.languages
          /\ PLATFORMS = f.platforms
          /\ MEDIA_TYPE = f.media_type
    /\ STATUS = "active" /\ AD_CATEGORY = "all" /\ START_DATE = "" /\ END_DATE = ""
    /\ base_url = <<>> /\ current_url = <<>> /\ filtered_again = <<>> /\ fpc = "idle"
    /\ NoLoad /\ NoScrape /\ NoCount /\ NoRate /\ NoJobs /\ NoWriters /\ NoLate

NextTask ==
    \/ TaskStart
    \/ Skip
    \/ TaskNavigate
    \/ ExtractFails
    \/ TaskSuggestions
    \/ AdvertiserAds
    \/ AdvertiserFilterRaises
    \/ AdvertiserExtractRaises
    \/ AdvertisersDone
    \/ TaskFilter
    \/ TaskAds
    \/ TaskAdsRaises
    \/ TaskCrash
    \/ SavePrimary
    \/ SaveBackup
    \/ SaveFails
    \/ Mark
    \/ MarkFails
    \/ Finish

SpecTask == InitTask /\ [][NextTask]_vars

\* the filter settings name a language, a platform or a media type the
\* scraper does not know
InvalidConfig ==
    \/ \E i \in 1..Len(LANGUAGES) : ~KnownLanguage(LANGUAGES[i])
    \/ ~(Range(PLATFORMS) \subseteq PLATFORM_SET)
    \/ MEDIA_TYPE \notin MEDIA_TYPE_SET

\* C21: validation precedes side effects: under an invalid filter
\* configuration a run, in every MODE, opens no page, writes no output,
\* backup or checkpoint file and saves no Task.
C21_ValidationFirst ==
    InvalidConfig =>
        /\ ~navigated
        /\ runAppended = <<>>
        /\ outFiles = NoFiles /\ backupFiles = NoFiles /\ ckptFile = Missing

\* C30: no partial persistence: the output files hold no record of the
\* current run for a TaskKey whose extraction raised or was killed.
C30_NoPartialPersistence ==
    \A n \in 0..MaxFiles : \A r \in RecordsIn(outFiles[n]) :
       r.run = run => r.key \notin interrupted

(***************************************************************************)
(* _discover_month_prefixes applied to a DOM.  dom[k] is the month section *)
(* MONTH_BASE/div[k + 1]: d4 and d3 are the card slots i for which         *)
(* div[4]/div[1]/div[i]/div and div[3]/div[1]/div[i]/div exist.            *)
(***************************************************************************)
MaxMonths == 2
MaxSlots  == 2

\* driver.find_element("xpath", f"{MONTH_BASE}/div[{m}]/div[{inner}]/div[1]/div[{i}]/div")
FindElement(d, m, inner, i) ==
    /\ m - 1 \in 1..Len(d)
    /\ i \in (IF inner = 4 THEN d[m - 1].d4 ELSE d[m - 1].d3)

\* the for loop over (4, 3): the first inner whose slot 1 holds a card, 0 for None
Found(d, m) ==
    IF FindElement(d, m, 4, 1) THEN 4 ELSE IF FindElement(d, m, 3, 1) THEN 3 ELSE 0

\* the while loop from month position m on
RECURSIVE DiscoverLoop(_, _)
DiscoverLoop(d, m) ==
    IF Found(d, m) = 0 THEN <<>>
    ELSE <<<<m, Found(d, m)>>>> \o DiscoverLoop(d, m + 1)

DiscoverCall ==
    /\ disc_result = Null
    /\ disc_result' = DiscoverLoop(dom, 2)
    /\ UNCHANGED <<nonDiscVars, dom>>

Sections == [d4 : SUBSET (1..MaxSlots), d3 : SUBSET (1..MaxSlots)]

InitDiscover ==
    /\ dom \in SeqsUpTo(Sections, MaxMonths)
    /\ disc_result = Null
    /\ IdleScrapers /\ NoRate /\ NoJobs /\ NoWriters /\ NoTask /\ NoPages /\ NoPosts
    /\ NoBudget /\ NoHanded

NextDiscover == DiscoverCall

SpecDiscover == InitDiscover /\ [][NextDiscover]_vars

\* the month section at position m exposes an item in some shape
Exposes(d, m) == m - 1 \in 1..Len(d) /\ (d[m - 1].d4 # {} \/ d[m - 1].d3 # {})

\* C31: group discovery: the result lists the positions 2, 3, ... up to but
\* excluding the first position at which neither div[4] nor div[3] exposes
\* an item, and at each position it names div[4] when div[4] exposes an
\* item and div[3] otherwise.
C31_GroupDiscovery ==
    disc_result # Null =>
        LET n == Len(disc_result)
        IN  /\ \A k \in 1..n :
                  /\ disc_result[k][1] = k + 1
                  /\ Exposes(dom, k + 1)
                  /\ disc_result[k][2] = IF dom[k].d4 # {} THEN 4 ELSE 3
            /\ ~Exposes(dom, n + 2)

(***************************************************************************)
(* facebook_pages_scraper.py: main, its keyword loop, scrape_one_page,     *)
(* scrape_from_urls and the except branch that rotates the account and     *)
(* reloads the checkpoint.  A page is <<keyword index, link index>> in     *)
(* keyword mode and <<url index, 0>> in URL mode; the search results of a  *)
(* keyword are the same on every attempt.                                  *)
(***************************************************************************)
NumKeywords == 2      \* len(KEYWORDS), len(URLS)
NumLinks    == 2      \* len(link_elements) of every keyword
MaxFaults   == 2      \* transient exceptions and kills in one behaviour
_ACCOUNT_IDS == <<1, 2>>
PAGES_CONTINUATION == TRUE

PageKeys == (0..(NumKeywords - 1)) \X (0..(NumLinks - 1))

_next_account(cur) ==
    LET i == CHOOSE k \in 1..Len(_ACCOUNT_IDS) : _ACCOUNT_IDS[k] = cur
    IN  _ACCOUNT_IDS[(i % Len(_ACCOUNT_IDS)) + 1]

\* the content of progress.json after _save_checkpoint(kw, lnk)
_save_checkpoint(kw, lnk) ==
    IF PAGES_CONTINUATION THEN [kw |-> kw, lnk |-> lnk] ELSE PROGRESS_FILE

_load_checkpoint ==
    IF PAGES_CONTINUATION /\ PROGRESS_FILE # Null
    THEN <<PROGRESS_FILE.kw, PROGRESS_FILE.lnk>> ELSE <<0, 0>>

\* main line 1180: kw_start, link_start = _load_checkpoint()
MainStart ==
    /\ ppc = "start"
    /\ kw_start' = _load_checkpoint[1] /\ link_start' = _load_checkpoint[2]
    /\ ppc' = "session"
    /\ UNCHANGED <<nonPagesVars, SEARCH_METHOD, PROGRESS_FILE, AGG_FILE, ACCOUNT_NUMBER,
                   kw_i, link_i, failing, faults>>

\* lines 1196-1220: open the browser session and enter the loop of the mode
OpenSession ==
    /\ ppc = "session"
    /\ kw_i' = 0 /\ link_i' = 0
    /\ ppc' = IF SEARCH_METHOD = "url" THEN "url_loop" ELSE "kw_loop"
    /\ UNCHANGED <<nonPagesVars, SEARCH_METHOD, PROGRESS_FILE, AGG_FILE, ACCOUNT_NUMBER,
                   kw_start, link_start, failing, faults>>

\* lines 1222-1224: the head of the keyword loop
KeywordNext ==
    /\ ppc = "kw_loop"
    /\ IF kw_i >= NumKeywords THEN ppc' = "success" /\ UNCHANGED <<kw_i, link_i>>
       ELSE IF kw_i < kw_start THEN kw_i' = kw_i + 1 /\ UNCHANGED <<ppc, link_i>>
       ELSE ppc' = "link_loop" /\ link_i' = 0 /\ UNCHANGED kw_i
    /\ UNCHANGED <<nonPagesVars, SEARCH_METHOD, PROGRESS_FILE, AGG_FILE, ACCOUNT_NUMBER,
                   kw_start, link_start, failing, faults>>

\* lines 1231-1238: the Pages filter fails or no link is found: continue
KeywordSkipped ==
    /\ ppc = "kw_loop" /\ kw_i < NumKeywords /\ kw_i >= kw_start
    /\ kw_i' = kw_i + 1
    /\ UNCHANGED <<nonPagesVars, SEARCH_METHOD, PROGRESS_FILE, AGG_FILE, ACCOUNT_NUMBER,
                   kw_start, link_start, link_i, ppc, failing, faults>>

\* lines 1241-1256: the head of the link loop and the end of a keyword
LinkNext ==
    /\ ppc = "link_loop"
    /\ IF link_i >= NumLinks
       THEN /\ PROGRESS_FILE' = _save_checkpoint(kw_i + 1, 0)
            /\ kw_i' = kw_i + 1 /\ link_i' = 0 /\ ppc' = "kw_loop"
       ELSE IF kw_i = kw_start /\ link_i < link_start
       THEN link_i' = link_i + 1 /\ UNCHANGED <<PROGRESS_FILE, kw_i, ppc>>
       ELSE /\ PROGRESS_FILE' = _save_checkpoint(kw_i, link_i)
            /\ ppc' = "scrape" /\ UNCHANGED <<kw_i, link_i>>
    /\ UNCHANGED <<nonPagesVars, SEARCH_METHOD, AGG_FILE, ACCOUNT_NUMBER, kw_start,
                   link_start, failing, faults>>

\* scrape_one_page lines 1028-1073: extract the page and append it to AGG_FILE
ScrapeAppend ==
    /\ ppc = "scrape" /\ <<kw_i, link_i>> \notin failing
    /\ AGG_FILE' = Append(AGG_FILE, <<kw_i, link_i>>)
    /\ ppc' = "appended"
    /\ UNCHANGED <<nonPagesVars, SEARCH_METHOD, PROGRESS_FILE, ACCOUNT_NUMBER, kw_start,
                   link_start, kw_i, link_i, failing, faults>>

\* scrape_one_page line 1076: _save_checkpoint(kw_i, link_i + 1)
ScrapeCheckpoint ==
    /\ ppc = "appended"
    /\ PROGRESS_FILE' = _save_checkpoint(kw_i, link_i + 1)
    /\ link_i' = link_i + 1 /\ ppc' = "link_loop"
    /\ UNCHANGED <<nonPagesVars, SEARCH_METHOD, AGG_FILE, ACCOUNT_NUMBER, kw_start,
                   link_start, kw_i, failing, faults>>

\* main lines 1264-1271: except Exception: next account, reload the checkpoint, retry
Recover ==
    /\ ACCOUNT_NUMBER' = _next_account(ACCOUNT_NUMBER)
    /\ kw_start' = _load_checkpoint[1] /\ link_start' = _load_checkpoint[2]
    /\ kw_i' = 0 /\ link_i' = 0
    /\ ppc' = "session"

\* scrape_one_page raises for a page that fails on every attempt (keyword mode)
PageFails ==
    /\ ppc = "scrape" /\ <<kw_i, link_i>> \in failing
    /\ Recover
    /\ UNCHANGED <<nonPagesVars, SEARCH_METHOD, PROGRESS_FILE, AGG_FILE, failing, faults>>

\* an exception of the session, the search or scrape_one_page that does not recur
TransientRaise ==
    /\ ppc \in {"session", "kw_loop", "link_loop", "scrape", "appended"}
    /\ faults < MaxFaults
    /\ faults' = faults + 1
    /\ Recover
    /\ UNCHANGED <<nonPagesVars, SEARCH_METHOD, PROGRESS_FILE, AGG_FILE, failing>>

\* scrape_from_urls lines 1089-1097: skip below url_start, else checkpoint the URL
UrlNext ==
    /\ ppc = "url_loop"
    /\ IF kw_i >= NumKeywords THEN ppc' = "success" /\ UNCHANGED <<kw_i, PROGRESS_FILE>>
       ELSE IF kw_i < kw_start THEN kw_i' = kw_i + 1 /\ UNCHANGED <<ppc, PROGRESS_FILE>>
       ELSE /\ PROGRESS_FILE' = _save_checkpoint(kw_i, 0)
            /\ ppc' = "url_scrape" /\ UNCHANGED kw_i
    /\ UNCHANGED <<nonPagesVars, SEARCH_METHOD, AGG_FILE, ACCOUNT_NUMBER, kw_start,
                   link_start, link_i, failing, faults>>

\* scrape_from_urls lines 1099-1169: extract the page and append it to AGG_FILE
UrlAppend ==
    /\ ppc = "url_scrape" /\ <<kw_i, 0>> \notin failing
    /\ AGG_FILE' = Append(AGG_FILE, <<kw_i, 0>>)
    /\ kw_i' = kw_i + 1 /\ ppc' = "url_loop"
    /\ UNCHANGED <<nonPagesVars, SEARCH_METHOD, PROGRESS_FILE, ACCOUNT_NUMBER, kw_start,
                   link_start, link_i, failing, faults>>

\* scrape_from_urls lines 1103-1117, 1171-1173: the page does not load or the
\* extraction raises: the except branch prints and continues with the next URL
UrlFails ==
    /\ ppc = "url_scrape"
    /\ \/ <<kw_i, 0>> \in failing /\ UNCHANGED faults
       \/ faults < MaxFaults /\ faults' = faults + 1
    /\ kw_i' = kw_i + 1 /\ ppc' = "url_loop"
    /\ UNCHANGED <<nonPagesVars, SEARCH_METHOD, PROGRESS_FILE, AGG_FILE, ACCOUNT_NUMBER,
                   kw_start, link_start, link_i, failing>>

\* main lines 1258-1262: wipe the checkpoint and leave the while loop
Success ==
    /\ ppc = "success"
    /\ PROGRESS_FILE' = IF PAGES_CONTINUATION THEN Null ELSE PROGRESS_FILE
    /\ ppc' = "stopped"
    /\ UNCHANGED <<nonPagesVars, SEARCH_METHOD, AGG_FILE, ACCOUNT_NUMBER, kw_start,
                   link_start, kw_i, link_i, failing, faults>>

\* the process dies (not an Exception) and is started again with the same files
PagesKill ==
    /\ ppc \notin {"start", "stopped"}
    /\ faults < MaxFaults
    /\ faults' = faults + 1
    /\ ppc' = "start"
    /\ kw_start' = 0 /\ link_start' = 0 /\ kw_i' = 0 /\ link_i' = 0
    /\ ACCOUNT_NUMBER' \in Range(_ACCOUNT_IDS)
    /\ UNCHANGED <<nonPagesVars, SEARCH_METHOD, PROGRESS_FILE, AGG_FILE, failing>>

InitPages ==
    /\ SEARCH_METHOD \in {"keyword", "url"}
    /\ PROGRESS_FILE = Null /\ AGG_FILE = <<>>
    /\ ACCOUNT_NUMBER \in Range(_ACCOUNT_IDS)
    /\ kw_start = 0 /\ link_start = 0 /\ kw_i = 0 /\ link_i = 0
    /\ ppc = "start" /\ faults = 0
    /\ failing \in SUBSET PageKeys
    /\ IdleScrapers /\ NoRate /\ NoJobs /\ NoWriters /\ NoTask /\ NoDisc /\ NoPosts
    /\ NoBudget /\ NoHanded

MainStep ==
    \/ MainStart \/ OpenSession \/ KeywordNext \/ LinkNext \/ ScrapeAppend
    \/ ScrapeCheckpoint \/ PageFails \/ UrlNext \/ UrlAppend \/ UrlFails \/ Success

NextPages == MainStep \/ KeywordSkipped \/ TransientRaise \/ PagesKill

SpecPages == InitPages /\ [][NextPages]_vars

\* every statement of main that can run does run
SpecPagesFair == SpecPages /\ WF_vars(MainStep)

\* C32: pages scraper resume: no page whose record is already in all_pages.json
\* is scraped and appended again, whatever crashes and resumes lie in between.
C32_NoPageTwice ==
    \A i, j \in 1..Len(AGG_FILE) : i < j => AGG_FILE[i] # AGG_FILE[j]

\* C33: bounded retries: when some page fails on every attempt under every
\* account, main eventually stops.
C33_BoundedRetries ==
    (failing # {}) => <>(ppc = "stopped")

(***************************************************************************)
(* posts_scraper.py: next_numbered_filename and the runs of main that use  *)
(* it (APPEND_RESULTS is False).  A file results_N.json is its number N.   *)
(***************************************************************************)
MaxNumber == 11       \* no run starts once results_<MaxNumber>.json exists

\* str(n): the decimal digits of n
RECURSIVE Decimal(_)
Decimal(n) == IF n < 10 THEN <<n>> ELSE Decimal(n \div 10) \o <<n % 10>>

\* out_dir.glob("results_[0-9].json"): one character of 0-9 between stem and suffix
Glob(files) == {n \in files : Len(Decimal(n)) = 1}

\* sorted(paths)[-1] for names that differ in one character
LastSorted(matched) == CHOOSE n \in matched : \A k \in matched : k <= n

next_numbered_filename(files) ==
    LET existing == Glob(files)
    IN  IF existing = {} THEN 1 ELSE LastSorted(existing) + 1

\* main lines 361-366: out_path = next_numbered_filename(out_dir)
PostsChoose ==
    /\ out_path = 0
    /\ \A n \in result_files : n < MaxNumber
    /\ out_path' = next_numbered_filename(result_files)
    /\ UNCHANGED <<nonPostsVars, result_files, overwritten>>

\* main lines 372-405: the links are fetched and save_json(out_path, ...) opens
\* the file with mode "w"
PostsSave ==
    /\ out_path # 0
    /\ result_files' = result_files \cup {out_path}
    /\ overwritten' = overwritten \cup (result_files \cap {out_path})
    /\ out_path' = 0
    /\ UNCHANGED nonPostsVars

\* the user removes an old results file between two runs
PostsRemove ==
    /\ out_path = 0
    /\ \E n \in result_files : result_files' = result_files \ {n}
    /\ UNCHANGED <<nonPostsVars, out_path, overwritten>>

InitPosts ==
    /\ result_files = {} /\ out_path = 0 /\ overwritten = {}
    /\ IdleScrapers /\ NoRate /\ NoJobs /\ NoWriters /\ NoTask /\ NoDisc /\ NoPages
    /\ NoBudget /\ NoHanded

NextPosts == PostsChoose \/ PostsSave \/ PostsRemove

SpecPosts == InitPosts /\ [][NextPosts]_vars

\* C34: fresh numbered file: the path next_numbered_filename returned does not
\* exist yet and is numbered one higher than the highest existing
\* results_N.json (1 when there is none), so no run writes over an earlier
\* results file.
C34_FreshNumberedFile ==
    /\ out_path # 0 =>
          /\ out_path \notin result_files
          /\ \A n \in result_files : n < out_path
          /\ out_path = 1 \/ out_path - 1 \in result_files
    /\ overwritten = {}

(***************************************************************************)
(* facebook_advertiser_ads.py: the budget of step 7 of scrape_pair.  libs  *)
(* holds, for every distinct advertiser page, the cards its library page   *)
(* shows: "ok" parses to an ad, "bad" is a card whose parse raises or      *)
(* gives nothing.                                                          *)
(***************************************************************************)
MaxAdsLimit == 3
MaxLibs     == 2
MaxLibCards == 2

\* extract_cards lines 357-375: walk the cards from position n on with `have`
\* ads collected; the result is len(ads)
RECURSIVE WalkCardsLate(_, _, _, _)
WalkCardsLate(cards, n, have, lim) ==
    IF lim # 0 /\ have > lim THEN have
    ELSE IF n > Len(cards) THEN have
    ELSE WalkCardsLate(cards, n + 1, IF cards[n] = "ok" THEN have + 1 ELSE have, lim)
RECURSIVE WalkCards(_, _, _, _)
WalkCards(cards, n, have, lim) ==
    IF lim # 0 /\ have >= lim THEN have
    ELSE IF n > Len(cards) THEN have
    ELSE WalkCards(cards, n + 1, IF cards[n] = "ok" THEN have + 1 ELSE have, lim)

\* len(extract_cards(sb, limit)) on a page showing `cards`
extract_cards(cards, lim) == WalkCards(cards, 1, 0, lim)

\* scrape_pair lines 465-467
BudgetStart ==
    /\ bpc = "start"
    /\ pages_list' = <<>> /\ total_ads_extracted' = 0 /\ remaining_limit' = ADS_LIMIT
    /\ lib_i' = 1 /\ bpc' = "loop"
    /\ UNCHANGED <<nonBudgetVars, ADS_LIMIT, libs, passed_limit, total_at_call>>

\* lines 469-472 and the end of the for loop
BudgetStop ==
    /\ bpc = "loop"
    /\ lib_i > Len(libs) \/ total_ads_extracted >= ADS_LIMIT
    /\ bpc' = "save"
    /\ UNCHANGED <<nonBudgetVars, ADS_LIMIT, libs, lib_i, pages_list, total_ads_extracted,
                   remaining_limit, passed_limit, total_at_call>>

\* lines 474-482: scrape_lib_page(..., remaining_limit) and the counters; the
\* outer except of extract_cards (lines 382-384) returns the ads collected up
\* to the card at which the driver raised
BudgetScrape ==
    /\ bpc = "loop"
    /\ lib_i <= Len(libs) /\ total_ads_extracted < ADS_LIMIT
    /\ \E shown \in 0..Len(libs[lib_i]) :
          LET ads_count == extract_cards(SubSeq(libs[lib_i], 1, shown), remaining_limit)
          IN  /\ pages_list' = Append(pages_list, ads_count)
              /\ total_ads_extracted' = total_ads_extracted + ads_count
              /\ remaining_limit' =
                     Max(0, ADS_LIMIT - (total_ads_extracted + ads_count))
    /\ passed_limit' = remaining_limit /\ total_at_call' = total_ads_extracted
    /\ lib_i' = lib_i + 1
    /\ UNCHANGED <<nonBudgetVars, ADS_LIMIT, libs, bpc>>

InitBudget ==
    /\ ADS_LIMIT \in 0..MaxAdsLimit
    /\ libs \in SeqsUpTo(SeqsUpTo({"ok", "bad"}, MaxLibCards), MaxLibs)
    /\ bpc = "start" /\ lib_i = 0 /\ pages_list = <<>>
    /\ total_ads_extracted = 0 /\ remaining_limit = 0
    /\ passed_limit = 0 /\ total_at_call = 0
    /\ IdleScrapers /\ NoRate /\ NoJobs /\ NoWriters /\ NoTask /\ NoDisc /\ NoPages
    /\ NoPosts /\ NoHanded

NextBudget == BudgetStart \/ BudgetStop \/ BudgetScrape

SpecBudget == InitBudget /\ [][NextBudget]_vars

RECURSIVE SumSeq(_)
SumSeq(q) == IF q = <<>> THEN 0 ELSE Head(q) + SumSeq(Tail(q))

\* C35: per-pair ad budget: the ads collected over all advertiser pages of one
\* pair never exceed ADS_LIMIT, and every scrape_lib_page call receives a
\* positive remaining limit equal to ADS_LIMIT minus the ads collected before
\* the call.
C35_PerPairBudget ==
    /\ total_ads_extracted = SumSeq(pages_list)
    /\ total_ads_extracted <= ADS_LIMIT
    /\ pages_list # <<>> =>
          /\ passed_limit > 0
          /\ passed_limit = ADS_LIMIT - total_at_call

\* the budget is used up by two advertiser pages, the second under a smaller limit
C35_Witness ==
    /\ bpc = "save" /\ Len(pages_list) = 2
    /\ pages_list[1] > 0 /\ pages_list[2] > 0
    /\ total_ads_extracted = ADS_LIMIT
    /\ passed_limit < ADS_LIMIT
    /\ Len(libs[2]) > passed_limit

(***************************************************************************)
(* extract_ads as a whole: termination, completeness and the rounds in     *)
(* which the page renders between the two counting passes.                 *)
(***************************************************************************)
\* the statements of extract_ads; the renders are the browser's
ExtractStep ==
    \/ Probe \/ Recount \/ HitLimit \/ ParseOk \/ ParseRaises \/ CardMissing
    \/ NextPrefix \/ EndRound

\* extract_ads runs on: every statement that can run does run
SpecExtractFair == SpecExtract /\ WF_vars(ExtractStep)

\* C36 as stated: extract_ads returns, with or without a limit and even if
\* every card fails to parse; there is at most one idle round between two
\* rounds with growth, and the return comes after exactly two idle rounds.
C36_ReturnsAfterTwoIdle ==
    /\ <>(epc = "returned")
    /\ [](epc # "returned" => idleStreak <= 1)
    /\ [](epc = "returned" => idleStreak = MAX_DEAD)

\* C36 amended: extract_ads returns, with or without a limit and even if
\* every card fails to parse; there is at most one idle round between two
\* rounds with growth, and the return comes after exactly two idle rounds
\* unless it is the return at the limit, which comes inside a round with growth.
C36_ExtractionTerminates ==
    /\ <>(epc = "returned")
    /\ [](epc # "returned" => idleStreak <= 1)
    /\ [](epc = "returned" => (idleStreak = MAX_DEAD \/ AtLimit))

\* returned without a limit after two rounds with growth in which no card parsed
C36_Witness ==
    /\ epc = "returned" /\ limit = 0
    /\ ads = <<>> /\ skipped >= 2 /\ seen_cards >= 2
    /\ idleStreak = MAX_DEAD

\* C37: extraction completeness: when extract_ads returns by idle termination
\* without a limit, every card present in the page at the last probe has been
\* attempted (handed to _parse_card, whether it parsed or raised), also the
\* cards behind a tolerated gap and those of a strip that appeared ahead of
\* older strips.
C37_Completeness ==
    (epc = "returned" /\ limit = 0) => AllCards(page) \subseteq visits

\* C38: probe/render interleaving: also when the page renders cards between
\* the totalling pass and the recount of a strip in the same round, at every
\* round boundary seen_cards equals the number of positions attempted so far
\* (the Items collected plus the positions skipped), so that no position is
\* attempted twice.
C38_RenderBetweenCounts ==
    RoundBoundary => seen_cards = Len(ads) + skipped

\* C39: job visibility: once POST /scrape/* has returned a job_id with status
\* running, GET /jobs/{job_id} never answers 404 for it, whatever the
\* interleaving of the response and the background task.
C39_JobVisible ==
    \A j \in handed_out : job_seen[j] # "404"

====
